---- MODULE Spec2Model ----
(***************************************************************************)
(* Model of scuba's configuration engine: the ScubaConfig object model     *)
(* (scuba/config.py), the !from_yaml loader (scuba/config.py) and the      *)
(* command-context resolution ScubaContext.process_command and the         *)
(* container command of ScubaDive (scuba/scuba.py).                        *)
(*                                                                         *)
(* Python values are tagged records; a Python str is a sequence of         *)
(* one-character strings so that quoting, splitting and joining are        *)
(* computed character by character.                                        *)
(***************************************************************************)
EXTENDS Integers, Sequences, FiniteSets, TLC

VARIABLES
    environ,    \* os.environ of the process: variable name -> value
    data,       \* what yaml.load returned for the anchor document
    config,     \* outcome of ScubaConfig(**data)
    command,    \* the caller's command list (the list object handed to process_command)
    call,       \* the arguments of the last process_command call, as passed
    context,    \* outcome of the last process_command call
    pc,         \* position of the caller: "start", "loaded", "called", "run", "norun"
    fs,         \* files on disk: normalized path -> YAML document tree
    stack,      \* loaders under construction (yaml.load nests one Loader per document)
    opens,      \* every open(path, 'r') made so far, in order
    loaded,     \* outcome of yaml.load / load_config for the anchor file
    cwd,        \* os.getcwd() of the process
    mounts,     \* the directories os.path.ismount holds for
    fc_path,    \* find_config: `path`, the directory being examined
    fc_rel,     \* find_config: `rel`, the way back down from `path` to the start
    examined,   \* find_config: every directory tested for the anchor file, in order
    fc_result,  \* outcome of find_config
    entrypoint_override,    \* ScubaDive.entrypoint_override, the --entrypoint argument
    image_entrypoint,       \* the entrypoint the image declares (docker inspect)
    docker_cmd  \* ScubaDive.docker_cmd, the command handed to docker run

finder == <<cwd, mounts, fc_path, fc_rel, examined, fc_result>>

launcher == <<entrypoint_override, image_entrypoint, docker_cmd>>

vars == <<environ, data, config, command, call, context, pc, fs, stack, opens, loaded,
          cwd, mounts, fc_path, fc_rel, examined, fc_result,
          entrypoint_override, image_entrypoint, docker_cmd>>

-----------------------------------------------------------------------------
(* Python values *)

None == [t |-> "none"]
Str(s) == [t |-> "str", s |-> s]
PyInt(n) == [t |-> "int", n |-> n]
PyBool(b) == [t |-> "bool", b |-> b]
List(l) == [t |-> "list", l |-> l]
Dict(d) == [t |-> "dict", d |-> d]

EmptyDict == Dict(<<>>)

\* Python truth value testing, as used by `if x:` and `not x`
Truthy(v) ==
    CASE v.t = "none" -> FALSE
      [] v.t = "str"  -> v.s # <<>>
      [] v.t = "int"  -> v.n # 0
      [] v.t = "bool" -> v.b
      [] v.t = "list" -> v.l # <<>>
      [] v.t = "dict" -> DOMAIN v.d # {}

\* dict.get(key, default)
DictGet(d, k, default) == IF k \in DOMAIN d.d THEN d.d[k] ELSE default

\* An outcome of a call: a returned value or a raised exception
Ok(v) == [exc |-> "none", msg |-> [id |-> "none"], val |-> v]
Raise(e, m) == [exc |-> e, msg |-> m, val |-> None]
Msg(id) == [id |-> id]

-----------------------------------------------------------------------------
(* Strings *)

RECURSIVE Join(_, _)
\* sep.join(parts) for a sequence of strings
Join(sep, parts) ==
    IF parts = <<>> THEN <<>>
    ELSE IF Len(parts) = 1 THEN parts[1]
    ELSE parts[1] \o sep \o Join(sep, Tail(parts))

RECURSIVE Replace(_, _, _)
\* s.replace(old, new) for a one-character old
Replace(s, old, new) ==
    IF s = <<>> THEN <<>>
    ELSE (IF Head(s) = old THEN new ELSE <<Head(s)>>) \o Replace(Tail(s), old, new)

Digit(n) == <<"0", "1", "2", "3", "4", "5", "6", "7", "8", "9">>[n + 1]

RECURSIVE NatToStr(_)
NatToStr(n) == IF n < 10 THEN <<Digit(n)>> ELSE NatToStr(n \div 10) \o <<Digit(n % 10)>>

\* str(v) for the scalar values a YAML document produces
PyStr(v) ==
    CASE v.t = "str"  -> v.s
      [] v.t = "int"  -> IF v.n < 0 THEN <<"-">> \o NatToStr(-v.n) ELSE NatToStr(v.n)
      [] v.t = "bool" -> IF v.b THEN <<"T", "r", "u", "e">> ELSE <<"F", "a", "l", "s", "e">>
      [] v.t = "none" -> <<"N", "o", "n", "e">>

\* os.getenv(key, '')
getenv(env, k) == IF k \in DOMAIN env THEN env[k] ELSE <<>>

-----------------------------------------------------------------------------
(* scuba/constants.py and scuba/utils.py *)

\* constants.DEFAULT_SHELL
DEFAULT_SHELL == Str(<<"/", "b", "i", "n", "/", "s", "h">>)

Letters ==
    {"a", "b", "c", "d", "e", "f", "g", "h", "i", "j", "k", "l", "m",
     "n", "o", "p", "q", "r", "s", "t", "u", "v", "w", "x", "y", "z",
     "A", "B", "C", "D", "E", "F", "G", "H", "I", "J", "K", "L", "M",
     "N", "O", "P", "Q", "R", "S", "T", "U", "V", "W", "X", "Y", "Z"}

Digits == {"0", "1", "2", "3", "4", "5", "6", "7", "8", "9"}

\* the characters shlex.quote leaves unquoted: [\w@%+=:,./-]
SafeChars == Letters \cup Digits \cup {"_", "@", "%", "+", "=", ":", ",", ".", "/", "-"}

\* shlex.quote(s)
shell_quote(s) ==
    IF s = <<>> THEN <<"'", "'">>
    ELSE IF \A i \in 1..Len(s) : s[i] \in SafeChars THEN s
    ELSE <<"'">> \o Replace(s, "'", <<"'", "\"", "'", "\"", "'">>) \o <<"'">>

\* utils.shell_quote_cmd(cmdlist): ' '.join(shell_quote(c) for c in cmdlist)
shell_quote_cmd(cmdlist) ==
    Join(<<" ">>, [i \in 1..Len(cmdlist) |-> shell_quote(cmdlist[i])])

Whitespace == {" ", "\t", "\r", "\n"}

RECURSIVE shlex_lex(_, _, _, _, _)
\* the lexer behind shlex.split (POSIX rules): `state` is "a" outside quotes,
\* "esc" after an unquoted backslash, "sq" / "dq" inside quotes, "dqesc" after a
\* backslash inside double quotes; `started` tells whether a token is open
shlex_lex(s, state, tok, started, out) ==
    IF s = <<>>
    THEN IF state # "a" THEN Raise("ValueError", Msg("No closing quotation"))
         ELSE Ok(IF started THEN Append(out, tok) ELSE out)
    ELSE LET c == Head(s)
             r == Tail(s)
         IN  CASE state = "a" ->
                    IF c \in Whitespace
                    THEN shlex_lex(r, "a", <<>>, FALSE, IF started THEN Append(out, tok) ELSE out)
                    ELSE IF c = "\\" THEN shlex_lex(r, "esc", tok, TRUE, out)
                    ELSE IF c = "'" THEN shlex_lex(r, "sq", tok, TRUE, out)
                    ELSE IF c = "\"" THEN shlex_lex(r, "dq", tok, TRUE, out)
                    ELSE shlex_lex(r, "a", Append(tok, c), TRUE, out)
               [] state = "esc" -> shlex_lex(r, "a", Append(tok, c), TRUE, out)
               [] state = "sq" ->
                    IF c = "'" THEN shlex_lex(r, "a", tok, TRUE, out)
                    ELSE shlex_lex(r, "sq", Append(tok, c), TRUE, out)
               [] state = "dq" ->
                    IF c = "\"" THEN shlex_lex(r, "a", tok, TRUE, out)
                    ELSE IF c = "\\" THEN shlex_lex(r, "dqesc", tok, TRUE, out)
                    ELSE shlex_lex(r, "dq", Append(tok, c), TRUE, out)
               [] state = "dqesc" ->
                    IF c \in {"\"", "\\"} THEN shlex_lex(r, "dq", Append(tok, c), TRUE, out)
                    ELSE shlex_lex(r, "dq", Append(Append(tok, "\\"), c), TRUE, out)

\* shlex.split(s)
shlex_split(s) == shlex_lex(s, "a", <<>>, FALSE, <<>>)

RECURSIVE flatten_seq(_)
flatten_seq(l) ==
    IF l = <<>> THEN <<>>
    ELSE (IF Head(l).t = "list" THEN flatten_seq(Head(l).l) ELSE <<Head(l)>>)
         \o flatten_seq(Tail(l))

\* utils.flatten_list(x): nested lists become one flat list, order kept
flatten_list(x) == List(flatten_seq(x.l))

\* index of the first c in s, 0 when there is none
RECURSIVE Find(_, _)
Find(s, c) ==
    IF s = <<>> THEN 0
    ELSE IF Head(s) = c THEN 1
    ELSE LET r == Find(Tail(s), c) IN IF r = 0 THEN 0 ELSE r + 1

\* utils.parse_env_var(s): "KEY=VALUE" or "KEY", the latter read from os.environ
parse_env_var(s, env) ==
    LET i == Find(s, "=") IN
    IF i = 0 THEN <<s, getenv(env, s)>>
    ELSE <<SubSeq(s, 1, i - 1), SubSeq(s, i + 1, Len(s))>>

-----------------------------------------------------------------------------
(* scuba/config.py: the ScubaConfig object model *)

k_image == <<"i", "m", "a", "g", "e">>
k_aliases == <<"a", "l", "i", "a", "s", "e", "s">>
k_hooks == <<"h", "o", "o", "k", "s">>
k_entrypoint == <<"e", "n", "t", "r", "y", "p", "o", "i", "n", "t">>
k_environment == <<"e", "n", "v", "i", "r", "o", "n", "m", "e", "n", "t">>
k_shell == <<"s", "h", "e", "l", "l">>
k_script == <<"s", "c", "r", "i", "p", "t">>
k_root == <<"r", "o", "o", "t">>
k_user == <<"u", "s", "e", "r">>

\* f with key k bound to v (d[k] = v)
Put(f, k, v) == [x \in DOMAIN f \cup {k} |-> IF x = k THEN v ELSE f[x]]

\* _process_script_node(node, name)
process_script_node(node, name) ==
    IF node.t = "str" THEN Ok(List(<<node>>))
    ELSE IF node.t = "dict" THEN
        LET script == DictGet(node, k_script, None) IN
        IF ~Truthy(script)
        THEN Raise("ConfigError", [id |-> "must have a 'script' subkey", name |-> name])
        ELSE IF script.t = "list" THEN Ok(script)
        ELSE IF script.t = "str" THEN Ok(List(<<script>>))
        ELSE Raise("ConfigError", [id |-> "script: must be a string or list", name |-> name])
    ELSE Raise("ConfigError", [id |-> "must be string or dict", name |-> name])

RECURSIVE environment_from_list(_, _, _)
\* the `for e in node` loop of _process_environment
environment_from_list(l, env, result) ==
    IF l = <<>> THEN Ok(Dict(result))
    ELSE IF Head(l).t # "str" THEN Raise("AttributeError", Msg("split"))
    ELSE LET kv == parse_env_var(Head(l).s, env) IN
         environment_from_list(Tail(l), env, Put(result, kv[1], Str(kv[2])))

\* an environment normalization that never reads the process environment
process_environment_unset(node, name, env) ==
    IF ~Truthy(node) THEN Ok(EmptyDict)
    ELSE IF node.t = "dict" THEN
        Ok(Dict([k \in DOMAIN node.d |->
                    IF node.d[k].t = "none" THEN Str(<<>>)
                    ELSE Str(PyStr(node.d[k]))]))
    ELSE IF node.t = "list" THEN environment_from_list(node.l, <<>>, <<>>)
    ELSE Raise("ConfigError", [id |-> "must be list or mapping", name |-> name])

\* _process_environment(node, name)
process_environment(node, name, env) ==
    IF ~Truthy(node) THEN Ok(EmptyDict)
    ELSE IF node.t = "dict" THEN
        Ok(Dict([k \in DOMAIN node.d |->
                    IF node.d[k].t = "none" THEN Str(getenv(env, k))
                    ELSE Str(PyStr(node.d[k]))]))
    ELSE IF node.t = "list" THEN environment_from_list(node.l, env, <<>>)
    ELSE Raise("ConfigError", [id |-> "must be list or mapping", name |-> name])

\* _get_entrypoint written with data.get(), which cannot tell absent from null
get_entrypoint_with_get(d) ==
    LET ep == DictGet(d, k_entrypoint, None) IN
    IF ep.t = "none" THEN Ok(None)
    ELSE IF ep.t # "str"
    THEN Raise("ConfigError", [id |-> "must be a string", name |-> k_entrypoint])
    ELSE Ok(ep)

\* _get_entrypoint(data)
get_entrypoint(d) ==
    IF k_entrypoint \notin DOMAIN d.d THEN Ok(None)
    ELSE LET ep == IF d.d[k_entrypoint].t = "none" THEN Str(<<>>) ELSE d.d[k_entrypoint] IN
         IF ep.t # "str"
         THEN Raise("ConfigError", [id |-> "must be a string", name |-> k_entrypoint])
         ELSE Ok(ep)

\* ScubaAlias.__init__
ScubaAlias(name, script, image, entrypoint, environment, shell, as_root) ==
    [name |-> name, script |-> script, image |-> image, entrypoint |-> entrypoint,
     environment |-> environment, shell |-> shell, as_root |-> as_root]

\* ScubaAlias.from_dict(name, node)
from_dict(name, node, env) ==
    LET script == process_script_node(node, name) IN
    IF script.exc # "none" THEN script
    ELSE IF node.t # "dict"
    THEN Ok(ScubaAlias(name, script.val, None, None, None, None, PyBool(FALSE)))
    ELSE LET entrypoint == get_entrypoint(node)
             environment == process_environment(DictGet(node, k_environment, None),
                                                name \o <<".">> \o k_environment, env)
         IN  IF entrypoint.exc # "none" THEN entrypoint
             ELSE IF environment.exc # "none" THEN environment
             ELSE Ok(ScubaAlias(name, script.val, DictGet(node, k_image, None),
                                entrypoint.val, environment.val,
                                DictGet(node, k_shell, None),
                                DictGet(node, k_root, PyBool(FALSE))))

RECURSIVE load_aliases_loop(_, _, _, _)
\* the loop of ScubaConfig._load_aliases over the entries `order` of the mapping
load_aliases_loop(nodes, order, env, aliases) ==
    IF order = <<>> THEN Ok(aliases)
    ELSE LET name == Head(order) IN
         IF \E i \in 1..Len(name) : name[i] = " "
         THEN Raise("ConfigError", Msg("Alias names cannot contain spaces"))
         ELSE LET alias == from_dict(name, nodes[name], env) IN
              IF alias.exc # "none" THEN alias
              ELSE load_aliases_loop(nodes, Tail(order), env, Put(aliases, name, alias.val))

\* ScubaConfig._load_aliases(data); `order` is the document order of the alias entries
load_aliases(d, order, env) ==
    LET node == DictGet(d, k_aliases, EmptyDict) IN
    IF node.t # "dict" THEN Raise("AttributeError", Msg("items"))
    ELSE load_aliases_loop(node.d, order, env, <<>>)

RECURSIVE load_hooks_loop(_, _, _)
load_hooks_loop(node, names, hooks) ==
    IF names = <<>> THEN Ok(hooks)
    ELSE LET h == DictGet(node, Head(names), None) IN
         IF ~Truthy(h) THEN load_hooks_loop(node, Tail(names), hooks)
         ELSE LET hook == process_script_node(h, Head(names)) IN
              IF hook.exc # "none" THEN hook
              ELSE load_hooks_loop(node, Tail(names), Put(hooks, Head(names), hook.val))

\* ScubaConfig._load_hooks(data)
load_hooks(d) ==
    LET node == DictGet(d, k_hooks, EmptyDict) IN
    IF node.t # "dict" THEN Raise("AttributeError", Msg("get"))
    ELSE load_hooks_loop(node, <<k_user, k_root>>, <<>>)

\* ScubaConfig._load_environment(data)
load_environment(d, env) ==
    process_environment(DictGet(d, k_environment, None), k_environment, env)

\* optional_nodes without the `shell` node
optional_nodes_without_shell == {k_image, k_aliases, k_hooks, k_entrypoint, k_environment}

optional_nodes == {k_image, k_aliases, k_hooks, k_entrypoint, k_environment, k_shell}

\* the unrecognized top-level nodes of a document
extra_nodes(d) == {n \in DOMAIN d.d : n \notin optional_nodes}

\* ScubaConfig.__init__(**data)
ScubaConfig(d, order, env) ==
    LET extra == extra_nodes(d) IN
    IF extra # {}
    THEN Raise("ConfigError", [id |-> "Unrecognized node",
                               plural |-> Cardinality(extra) > 1,
                               nodes |-> extra])
    ELSE LET entrypoint == get_entrypoint(d)
             aliases == load_aliases(d, order, env)
             hooks == load_hooks(d)
             environment == load_environment(d, env)
         IN  IF entrypoint.exc # "none" THEN entrypoint
             ELSE IF aliases.exc # "none" THEN aliases
             ELSE IF hooks.exc # "none" THEN hooks
             ELSE IF environment.exc # "none" THEN environment
             ELSE Ok([image |-> DictGet(d, k_image, None),
                      shell |-> DictGet(d, k_shell, DEFAULT_SHELL),
                      entrypoint |-> entrypoint.val,
                      aliases |-> aliases.val,
                      hooks |-> hooks.val,
                      environment |-> environment.val])

\* ScubaConfig.image that hands out an unset image
config_image_unchecked(cfg) == Ok(cfg.image)

\* ScubaConfig.image (property)
config_image(cfg) ==
    IF ~Truthy(cfg.image) THEN Raise("ConfigError", Msg("Top-level 'image' not set"))
    ELSE Ok(cfg.image)

-----------------------------------------------------------------------------
(* scuba/scuba.py: ScubaContext *)

\* ScubaContext.__init__
ScubaContext(image, script, entrypoint, environment, shell) ==
    [image |-> image, script |-> script, as_root |-> FALSE,
     entrypoint |-> entrypoint, environment |-> environment, shell |-> shell]

\* dict.update that keeps the values already present
DictUpdate_keeping(a, b) ==
    Dict([k \in DOMAIN a.d \cup DOMAIN b.d |-> IF k \in DOMAIN a.d THEN a.d[k] ELSE b.d[k]])

\* dict.update(other)
DictUpdate(a, b) ==
    Dict([k \in DOMAIN a.d \cup DOMAIN b.d |-> IF k \in DOMAIN b.d THEN b.d[k] ELSE a.d[k]])

\* an outcome of process_command, with the caller's command list as the call left it
WithCommand(outcome, cmd) ==
    [exc |-> outcome.exc, msg |-> outcome.msg, val |-> outcome.val, command |-> cmd]

\* alias_overrides that tests the alias entrypoint for truth, not for None
alias_overrides_truthy_entrypoint(result, alias) ==
    LET r1 == IF Truthy(alias.image) THEN [result EXCEPT !.image = alias.image] ELSE result
        r2 == IF Truthy(alias.entrypoint) THEN [r1 EXCEPT !.entrypoint = alias.entrypoint] ELSE r1
        r3 == IF alias.shell # None THEN [r2 EXCEPT !.shell = alias.shell] ELSE r2
        r4 == IF Truthy(alias.as_root) THEN [r3 EXCEPT !.as_root = TRUE] ELSE r3
    IN  IF Truthy(alias.environment)
        THEN [r4 EXCEPT !.environment = DictUpdate(r4.environment, alias.environment)]
        ELSE r4

\* process_command: the matched alias overrides image, entrypoint, shell, root, environment
alias_overrides(result, alias) ==
    LET r1 == IF Truthy(alias.image) THEN [result EXCEPT !.image = alias.image] ELSE result
        r2 == IF alias.entrypoint # None THEN [r1 EXCEPT !.entrypoint = alias.entrypoint] ELSE r1
        r3 == IF alias.shell # None THEN [r2 EXCEPT !.shell = alias.shell] ELSE r2
        r4 == IF Truthy(alias.as_root) THEN [r3 EXCEPT !.as_root = TRUE] ELSE r3
    IN  IF Truthy(alias.environment)
        THEN [r4 EXCEPT !.environment = DictUpdate(r4.environment, alias.environment)]
        ELSE r4

\* alias_script that lets extra arguments through to a multi-line alias
alias_script_ignoring_args(alias, cmd) ==
    IF Len(alias.script.l) > 1 THEN WithCommand(Ok(alias.script), cmd)
    ELSE LET popped == Tail(cmd) IN
         IF alias.script.l[1].t # "str"
         THEN WithCommand(Raise("TypeError", Msg("+")), popped)
         ELSE WithCommand(Ok(List(<<Str(alias.script.l[1].s \o <<" ">>
                                        \o shell_quote_cmd(popped))>>)), popped)

\* alias_script that forgets command.pop(0)
alias_script_without_pop(alias, cmd) ==
    IF Len(alias.script.l) > 1
    THEN IF Len(cmd) > 1
         THEN WithCommand(Raise("ConfigError",
                  Msg("Additional arguments not allowed with multi-line aliases")), cmd)
         ELSE WithCommand(Ok(alias.script), cmd)
    ELSE IF alias.script.l[1].t # "str"
         THEN WithCommand(Raise("TypeError", Msg("+")), cmd)
         ELSE WithCommand(Ok(List(<<Str(alias.script.l[1].s \o <<" ">>
                                        \o shell_quote_cmd(cmd))>>)), cmd)

\* process_command: the script of a matched alias, multi-line or single-line
alias_script(alias, cmd) ==
    IF Len(alias.script.l) > 1
    THEN IF Len(cmd) > 1
         THEN WithCommand(Raise("ConfigError",
                  Msg("Additional arguments not allowed with multi-line aliases")), cmd)
         ELSE WithCommand(Ok(alias.script), cmd)
    ELSE LET popped == Tail(cmd) IN
         IF alias.script.l[1].t # "str"
         THEN WithCommand(Raise("TypeError", Msg("+")), popped)
         ELSE WithCommand(Ok(List(<<Str(alias.script.l[1].s \o <<" ">>
                                        \o shell_quote_cmd(popped))>>)), popped)

\* literal_script that joins the tokens without quoting them
literal_script_unquoted(cmd) == List(<<Str(Join(<<" ">>, cmd))>>)

\* process_command: a command that is not an alias is used as it is
literal_script(cmd) == List(<<Str(shell_quote_cmd(cmd))>>)

\* call_site_overrides that lets an alias image win over the image argument
call_site_overrides_alias_first(result, cfg, image, shell) ==
    LET r1 == IF Truthy(shell) THEN [result EXCEPT !.shell = shell] ELSE result
        r2 == IF Truthy(image) /\ ~Truthy(r1.image) THEN [r1 EXCEPT !.image = image] ELSE r1
    IN  IF ~Truthy(r2.image)
        THEN LET top == config_image(cfg) IN
             IF top.exc # "none" THEN top ELSE Ok([r2 EXCEPT !.image = top.val])
        ELSE Ok(r2)

\* process_command: the shell and image arguments, then the top-level image
call_site_overrides(result, cfg, image, shell) ==
    LET r1 == IF Truthy(shell) THEN [result EXCEPT !.shell = shell] ELSE result
        r2 == IF Truthy(image) THEN [r1 EXCEPT !.image = image] ELSE r1
    IN  IF ~Truthy(r2.image)
        THEN LET top == config_image(cfg) IN
             IF top.exc # "none" THEN top ELSE Ok([r2 EXCEPT !.image = top.val])
        ELSE Ok(r2)

\* ScubaContext.process_command(cfg, command, image, shell)
process_command(cfg, cmd, image, shell) ==
    LET seed == ScubaContext(None, None, cfg.entrypoint, cfg.environment, cfg.shell) IN
    IF cmd = <<>>
    THEN WithCommand(call_site_overrides(seed, cfg, image, shell), cmd)
    ELSE IF cmd[1] \notin DOMAIN cfg.aliases
    THEN WithCommand(call_site_overrides(
             [seed EXCEPT !.script = flatten_list(literal_script(cmd))],
             cfg, image, shell), cmd)
    ELSE LET alias == cfg.aliases[cmd[1]]
             merged == alias_overrides(seed, alias)
             script == alias_script(alias, cmd)
         IN  IF script.exc # "none" THEN script
             ELSE WithCommand(call_site_overrides(
                      [merged EXCEPT !.script = flatten_list(script.val)],
                      cfg, image, shell), script.command)

-----------------------------------------------------------------------------
(* scuba/scuba.py: ScubaDive, the container command *)

\* container_path of the generated script: <scubadir>/command.sh
command_sh == Str(<<"/", ".", "s", "c", "u", "b", "a", "/", "c", "o", "m", "m", "a", "n", "d", ".", "s", "h">>)

\* __setup_native_run: with no user command the image's default command is the script
default_script(ctx, default_cmd) ==
    IF Truthy(ctx.script) THEN Ok(ctx.script)
    ELSE IF ~Truthy(default_cmd)
    THEN Raise("ScubaError", Msg("No command given and no image-specified command"))
    ELSE Ok(List(<<Str(shell_quote_cmd([i \in 1..Len(default_cmd.l) |-> default_cmd.l[i].s]))>>))

\* docker_entrypoint that tests each level for truth instead of for None
docker_entrypoint_truthy(override, entrypoint, ep) ==
    IF Truthy(override) THEN <<override>>
    ELSE IF Truthy(entrypoint) THEN <<entrypoint>>
    ELSE IF Truthy(ep) THEN ep.l ELSE <<>>

\* __setup_native_run: what goes in front of the shell in docker_cmd
docker_entrypoint(override, entrypoint, ep) ==
    IF override # None
    THEN IF override # Str(<<>>) THEN <<override>> ELSE <<>>
    ELSE IF entrypoint # None
    THEN IF entrypoint # Str(<<>>) THEN <<entrypoint>> ELSE <<>>
    ELSE IF Truthy(ep) THEN ep.l ELSE <<>>

-----------------------------------------------------------------------------
(* scuba/config.py: the !from_yaml Loader *)

\* constants.SCUBA_YML, as handed to load_config
SCUBA_YML == <<".", "s", "c", "u", "b", "a", ".", "y", "m", "l">>

\* index of the last c in s, 0 when there is none
RECURSIVE FindLast(_, _)
FindLast(s, c) ==
    IF s = <<>> THEN 0
    ELSE IF s[Len(s)] = c THEN Len(s)
    ELSE FindLast(SubSeq(s, 1, Len(s) - 1), c)

RECURSIVE StripSlashes(_)
\* head.rstrip('/')
StripSlashes(s) ==
    IF s # <<>> /\ s[Len(s)] = "/" THEN StripSlashes(SubSeq(s, 1, Len(s) - 1)) ELSE s

\* os.path.split(p)[0]
path_head(p) ==
    LET i == FindLast(p, "/")
        head == SubSeq(p, 1, i)
    IN  IF StripSlashes(head) = <<>> THEN head ELSE StripSlashes(head)

\* os.path.join(a, b)
path_join(a, b) ==
    IF b # <<>> /\ b[1] = "/" THEN b
    ELSE IF a = <<>> \/ a[Len(a)] = "/" THEN a \o b
    ELSE a \o <<"/">> \o b

RECURSIVE Components(_, _, _)
\* the components of a path between its slashes, "." and "" dropped, ".." applied
Components(p, cur, out) ==
    LET push == IF cur = <<>> \/ cur = <<".">> THEN out
                ELSE IF cur = <<".", ".">>
                THEN (IF out = <<>> THEN out ELSE SubSeq(out, 1, Len(out) - 1))
                ELSE Append(out, cur)
    IN  IF p = <<>> THEN push
        ELSE IF Head(p) = "/" THEN Components(Tail(p), <<>>, push)
        ELSE Components(Tail(p), Append(cur, Head(p)), out)

\* the file a path names when open() resolves it from the working directory
ResolvePath(p) == Join(<<"/">>, Components(p, <<>>, <<>>))

\* YAML nodes of a document, before construction
YScalar(v) == [y |-> "scalar", v |-> v]
YFromYaml(content) == [y |-> "from_yaml", content |-> content]
YUnsafe == [y |-> "unsafe"]
YMap(items) == [y |-> "map", items |-> items]
YSeq(items) == [y |-> "seq", items |-> items]

RECURSIVE Tagged(_)
\* the positions of the tagged scalars of a document still to be constructed
Tagged(tree) ==
    IF tree.y \in {"from_yaml", "unsafe"} THEN {<<>>}
    ELSE IF tree.y = "map"
    THEN UNION {{<<[k |-> key]>> \o q : q \in Tagged(tree.items[key])} :
                   key \in DOMAIN tree.items}
    ELSE IF tree.y = "seq"
    THEN UNION {{<<[i |-> n]>> \o q : q \in Tagged(tree.items[n])} :
                   n \in DOMAIN tree.items}
    ELSE {}

RECURSIVE NodeAt(_, _)
NodeAt(tree, pos) ==
    IF pos = <<>> THEN tree
    ELSE IF tree.y = "map" THEN NodeAt(tree.items[Head(pos).k], Tail(pos))
    ELSE NodeAt(tree.items[Head(pos).i], Tail(pos))

RECURSIVE ReplaceAt(_, _, _)
\* the document with the node at pos replaced by its constructed value
ReplaceAt(tree, pos, v) ==
    IF pos = <<>> THEN YScalar(v)
    ELSE IF tree.y = "map"
    THEN YMap([tree.items EXCEPT ![Head(pos).k] = ReplaceAt(@, Tail(pos), v)])
    ELSE YSeq([tree.items EXCEPT ![Head(pos).i] = ReplaceAt(@, Tail(pos), v)])

RECURSIVE Construct(_)
\* the Python value of a document whose tagged scalars are all constructed
Construct(tree) ==
    IF tree.y = "scalar" THEN tree.v
    ELSE IF tree.y = "map"
    THEN Dict([key \in DOMAIN tree.items |-> Construct(tree.items[key])])
    ELSE List([n \in DOMAIN tree.items |-> Construct(tree.items[n])])

RECURSIVE split_key_every_dot(_, _, _, _)
\* a split that takes every '.' for a separator, escaped or not
split_key_every_dot(key, prev, cur, out) ==
    IF key = <<>> THEN Append(out, cur)
    ELSE IF Head(key) = "."
    THEN split_key_every_dot(Tail(key), ".", <<>>, Append(out, cur))
    ELSE split_key_every_dot(Tail(key), Head(key), Append(cur, Head(key)), out)

RECURSIVE split_key(_, _, _, _)
\* re.split(r'(?<!\\)\.', key): split at each '.' not right after a backslash
split_key(key, prev, cur, out) ==
    IF key = <<>> THEN Append(out, cur)
    ELSE IF Head(key) = "." /\ prev # "\\"
    THEN split_key(Tail(key), ".", <<>>, Append(out, cur))
    ELSE split_key(Tail(key), Head(key), Append(cur, Head(key)), out)

RECURSIVE unescape_dots(_)
\* k.replace('\\.', '.')
unescape_dots(k) ==
    IF Len(k) < 2 THEN k
    ELSE IF k[1] = "\\" /\ k[2] = "."
    THEN <<".">> \o unescape_dots(SubSeq(k, 3, Len(k)))
    ELSE <<k[1]>> \o unescape_dots(Tail(k))

RECURSIVE retrieve(_, _)
\* from_yaml: cur = cur[k] for each segment; KeyError is the only error caught
retrieve(cur, segments) ==
    IF segments = <<>> THEN Ok(cur)
    ELSE IF cur.t # "dict" THEN Raise("TypeError", Msg("subscript"))
    ELSE IF unescape_dots(Head(segments)) \notin DOMAIN cur.d
    THEN Raise("YAMLError", Msg("Key not found"))
    ELSE retrieve(cur.d[unescape_dots(Head(segments))], Tail(segments))

\* from_yaml: "Retrieve the key"
retrieve_key(doc, key) == retrieve(doc, split_key(key, "", <<>>, <<>>))

\* load_config: IOError and yaml.YAMLError become ConfigError, the rest escapes
load_config_except(outcome) ==
    IF outcome.exc \in {"IOError", "YAMLError"} THEN Raise("ConfigError", outcome.msg)
    ELSE outcome

\* Loader.__init__(stream): one loader per document being constructed
Loader(id, name, tree) ==
    [id |-> id, name |-> name, root |-> path_head(name), cache |-> <<>>,
     tree |-> tree, pending |-> <<>>]

\* load_config: ScubaConfig(**(data or {}))
config_of(d, order, env) ==
    IF ~Truthy(d) THEN ScubaConfig(EmptyDict, order, env)
    ELSE IF d.t # "dict" THEN Raise("TypeError", Msg("argument after ** must be a mapping"))
    ELSE ScubaConfig(d, order, env)

-----------------------------------------------------------------------------
(* Bounded inputs: documents as yaml.load returns them, commands, overrides *)

\* the most arguments a command carries after its first token
MaxArgs == 2

\* marks a key the document leaves out (not a Python value)
Absent == [t |-> "absent"]

\* the mapping holding the keys of f that are not left out
MkDict(f) == Dict([k \in {x \in DOMAIN f : f[x] # Absent} |-> f[k]])

AliasNode(script, image, entrypoint, environment, shell, root) ==
    MkDict(k_script :> script @@ k_image :> image @@ k_entrypoint :> entrypoint
           @@ k_environment :> environment @@ k_shell :> shell @@ k_root :> root)

Document(image, shell, entrypoint, environment, aliases) ==
    MkDict(k_image :> image @@ k_shell :> shell @@ k_entrypoint :> entrypoint
           @@ k_environment :> environment @@ k_aliases :> aliases)

al == <<"a", "l">>
k_foo == <<"f", "o", "o">>
k_bar == <<"b", "a", "r">>
K1 == <<"K", "1">>
K2 == <<"K", "2">>
K3 == <<"K", "3">>
line1 == Str(<<"l", "s", " ", "-", "l">>)
line2 == Str(<<"p", "w", "d">>)

OneAlias(node) == Dict(al :> node)

TopImages == {Absent, Str(<<>>), Str(<<"A">>)}
TopShells == {Absent, None, Str(<<"S">>)}
TopEntrypoints == {Absent, None, Str(<<>>), Str(<<"E">>), PyInt(666)}
TopEnvironments == {Absent, Dict(K1 :> Str(<<"g", "1">>) @@ K2 :> Str(<<"g", "2">>))}
AliasImages == {Absent, Str(<<>>), Str(<<"B">>)}
AliasShells == {Absent, None, Str(<<>>), Str(<<"T">>)}
AliasEntrypoints == {Absent, None, Str(<<>>), Str(<<"F">>), PyBool(TRUE)}
AliasEnvironments ==
    {Absent, EmptyDict, Dict(K2 :> Str(<<"a", "2">>) @@ K3 :> Str(<<"a", "3">>))}
AliasRoots == {Absent, PyBool(FALSE), PyBool(TRUE)}
AliasScripts == {line1, List(<<line1>>), List(<<line1, line2>>)}

\* documents varying image and shell at both levels
ImageShellDocs ==
    {Document(gi, gs, Absent, Absent,
              OneAlias(AliasNode(sc, ai, Absent, Absent, as, Absent))) :
        gi \in TopImages, gs \in TopShells, ai \in AliasImages, as \in AliasShells,
        sc \in {line1, List(<<line1, line2>>)}}

\* documents varying the entrypoint at both levels
EntrypointDocs ==
    {Document(Str(<<"A">>), Absent, ge, Absent,
              OneAlias(AliasNode(sc, Absent, ae, Absent, Absent, Absent))) :
        ge \in TopEntrypoints, ae \in AliasEntrypoints, sc \in AliasScripts}

\* documents varying the environment at both levels, and the root flag
EnvironmentDocs ==
    {Document(gi, Absent, Absent, gv,
              OneAlias(AliasNode(sc, Absent, Absent, av, Absent, ar))) :
        gi \in {Absent, Str(<<"A">>)}, gv \in TopEnvironments, av \in AliasEnvironments,
        ar \in AliasRoots, sc \in {line1, List(<<line1, line2>>)}}

\* documents with a plain string alias, or no alias at all
PlainDocs ==
    {Document(gi, gs, ge, gv, a) :
        gi \in TopImages, gs \in {Absent, Str(<<"S">>)},
        ge \in {Absent, Str(<<"E">>)}, gv \in TopEnvironments,
        a \in {Absent, EmptyDict, OneAlias(line1)}}

\* documents with unrecognized top-level nodes
ExtraDocs ==
    {Dict(d.d @@ x) :
        d \in {Document(gi, Absent, ge, Absent, Absent) :
                  gi \in {Absent, Str(<<"A">>)}, ge \in {Absent, PyInt(666)}},
        x \in {k_foo :> Str(k_bar),
               k_bar :> None,
               k_foo :> Str(k_bar) @@ k_bar :> PyInt(1)}}

\* documents whose alias script has entries that are not plain strings
NestedDocs ==
    {Document(gi, Absent, Absent, Absent,
              OneAlias(AliasNode(sc, Absent, Absent, Absent, Absent, Absent))) :
        gi \in {Absent, Str(<<"A">>)},
        sc \in {List(<<List(<<line1, line2>>)>>), List(<<List(<<line1>>), line2>>),
                List(<<PyInt(1)>>)}}

\* documents with two aliases
TwoAliasDocs ==
    {Document(gi, Absent, Str(<<"E">>), Absent, Dict(al :> n1 @@ <<"x">> :> n2)) :
        gi \in {Absent, Str(<<"A">>)},
        n1 \in {line1, AliasNode(List(<<line1, line2>>), Str(<<"B">>), Absent,
                                 Absent, Absent, Absent)},
        n2 \in {line2, AliasNode(line2, Absent, None, EmptyDict, Absent, PyBool(TRUE)),
                AliasNode(line2, Absent, PyInt(1), Absent, Absent, Absent)}}

\* the forms an environment node can take: mappings with null, number, boolean
\* and string values, sequences of KEY=VALUE and bare KEY strings
EnvironmentForms ==
    {Absent,
     Dict(K1 :> None @@ K2 :> PyInt(1)),
     Dict(K1 :> PyBool(TRUE) @@ K3 :> Str(<<>>) @@ K2 :> None),
     List(<<Str(K1), Str(K2 \o <<"=", "v", "=", "w">>)>>),
     List(<<Str(K3 \o <<"=">>), Str(K1 \o <<"=", "x">>), Str(K2)>>)}

\* documents with an environment of each form at both levels
EnvironmentFormDocs ==
    {Document(Str(<<"A">>), Absent, Absent, gv,
              OneAlias(AliasNode(line1, Absent, Absent, av, Absent, Absent))) :
        gv \in EnvironmentForms, av \in EnvironmentForms}

\* documents with an alias whose name holds a space or a tab
SpacedNameDocs ==
    {Document(Str(<<"A">>), Absent, Absent, Absent, aliases) :
        aliases \in {Dict(name :> line1) : name \in {<<"a", " ", "b">>, <<"a", "\t", "b">>}}
                    \cup {Dict(al :> node @@ name :> line2) :
                             name \in {<<"a", " ", "b">>, <<"a", "\t", "b">>},
                             node \in {line1, PyInt(1)}}}

\* documents with hooks of each shape
HookDocs ==
    {Dict(k_image :> Str(<<"A">>)
          @@ k_hooks :> MkDict(k_user :> u @@ k_root :> r @@ <<"x">> :> o)) :
        u \in {Absent, None, line1, Dict(k_script :> List(<<line1, line2>>)),
               List(<<line1>>), Dict(k_image :> Str(<<"B">>)), PyInt(5), PyInt(0),
               EmptyDict},
        r \in {Absent, None, line2},
        o \in {Absent, line1}}

\* the scalars an environment node can be
ScalarEnvironments ==
    {PyInt(5), PyInt(0), Str(<<"x">>), Str(<<>>), PyBool(TRUE), PyBool(FALSE)}

\* documents whose environment, at the top or in the alias, is a scalar
ScalarEnvironmentDocs ==
    {Document(Str(<<"A">>), Absent, Absent, gv, OneAlias(line1)) :
        gv \in ScalarEnvironments}
    \cup {Document(Str(<<"A">>), Absent, Absent, Absent,
                   OneAlias(AliasNode(line1, Absent, Absent, av, Absent, Absent))) :
             av \in ScalarEnvironments}

\* documents whose alias has each shape a script node can take
ScriptDocs ==
    {Document(Str(<<"A">>), Absent, Absent, Absent, OneAlias(node)) :
        node \in {PyInt(1), None, List(<<line1>>), Str(<<>>),
                  Dict(k_image :> Str(<<"B">>))}
                 \cup {Dict(k_script :> sc) :
                          sc \in {None, Str(<<>>), List(<<>>), PyInt(5),
                                  Dict(k_script :> line1), List(<<line1, PyInt(1)>>)}}}

Docs ==
    ImageShellDocs \cup EntrypointDocs \cup EnvironmentDocs \cup PlainDocs \cup ExtraDocs
    \cup NestedDocs \cup TwoAliasDocs \cup ScriptDocs \cup EnvironmentFormDocs
    \cup SpacedNameDocs \cup HookDocs \cup ScalarEnvironmentDocs

Environs == {<<>>, K1 :> <<"o", "s">>}

Heads == {al, <<"x">>}
Args == {<<"-", "n">>, <<"m", "o", "r", "e", " ", "a", "r", "g", "s">>, <<"'">>}

RECURSIVE SeqsUpTo(_, _)
\* the sequences over S of length at most n
SeqsUpTo(S, n) ==
    IF n = 0 THEN {<<>>}
    ELSE LET shorter == SeqsUpTo(S, n - 1) IN
         shorter \cup {<<x>> \o q : x \in S, q \in {r \in shorter : Len(r) = n - 1}}

Commands == {<<>>} \cup {<<h>> \o a : h \in Heads, a \in SeqsUpTo(Args, MaxArgs)}
ImageOverrides == {None, Str(<<>>), Str(<<"C">>)}
ShellOverrides == {None, Str(<<"U">>)}

\* the orders in which the entries of a mapping can stand in the document
Orders(S) ==
    {o \in SeqsUpTo(S, Cardinality(S)) :
        Len(o) = Cardinality(S) /\ \A i, j \in 1..Len(o) : i # j => o[i] # o[j]}

\* the orders in which the aliases of a loaded document can stand
AliasOrders(d) ==
    IF d.t = "dict" /\ DictGet(d, k_aliases, EmptyDict).t = "dict"
    THEN Orders(DOMAIN DictGet(d, k_aliases, EmptyDict).d)
    ELSE {<<>>}

-----------------------------------------------------------------------------
(* Bounded inputs: the files a load_config call can find on disk *)

k_one == <<"o", "n", "e">>
k_two == <<"t", "w", "o">>
k_dotted == <<"k", ".", "d">>
k_its == <<".", "i">>
k_down == <<"s", ".", "d">>
k_here == <<"h">>
\* the key paths "\.i.s\.d.h" and "\.i.zz", double-quoted in the scalar
path_here == <<"\"", "\\", ".", "i", ".", "s", "\\", ".", "d", ".", "h", "\"">>
path_gone == <<"\"", "\\", ".", "i", ".", "z", "z", "\"">>
file_x == <<"x">>
file_y == <<"d", "/", "y">>

\* the scalar "!from_yaml <file> <key>"
Directive(file, key) == YFromYaml(file \o <<" ">> \o key)

\* what the file x can hold
XFiles ==
    {YMap(k_one :> YScalar(Str(<<"A">>)) @@ k_two :> YScalar(Str(<<"B">>))
          @@ k_dotted :> YMap(k_one :> YScalar(Str(<<"D">>)))
          @@ k_its :> YMap(k_down :> YMap(k_here :> YScalar(Str(<<"H">>))))),
     YMap(k_one :> YScalar(Str(<<"A">>))
          @@ k_two :> YSeq(<<YScalar(line1), YScalar(line2)>>)),
     YMap(k_one :> YScalar(Str(<<"A">>)) @@ k_two :> YUnsafe),
     YMap(<<>>),
     YScalar(None)}

\* what the file d/y can hold; its directives are relative to d
YFiles ==
    {YMap(k_one :> YScalar(Str(<<"C">>)) @@ k_two :> YScalar(None)),
     YMap(k_one :> Directive(<<".", ".", "/", "x">>, k_one)
          @@ k_two :> Directive(<<".", ".", "/", "x">>, k_two))}

\* the directives of the anchor document
Directives ==
    {Directive(f, key) :
        f \in {file_x, <<".", "/", "x">>}, key \in {k_one, k_two}}
    \cup {Directive(file_x, <<"\"", "k", "\\", ".", "d", ".", "o", "n", "e", "\"">>),
          Directive(file_x, <<"z", "z">>),
          Directive(file_x, <<"o", "n", "e", ".", "q">>),
          Directive(file_x, <<"t", "w", "o", ".", "q">>),
          Directive(file_x, path_here),
          Directive(file_x, path_gone),
          Directive(file_x, <<"k", "\\", ".", "d", ".", "o", "n", "e">>),
          Directive(file_y, k_one),
          Directive(file_y, k_two),
          Directive(<<"n">>, k_one),
          YFromYaml(file_x),
          Directive(file_x, <<"o", "n", "e", " ", "t", "w", "o">>),
          Directive(<<"'", "x">>, k_one)}

\* .scuba.yml: an image, one alias with its own image, and maybe a shell
Anchors ==
    {YMap([key \in {k \in {k_image, k_aliases, k_shell} :
                       k # k_shell \/ n3 # Absent} |->
             CASE key = k_image -> n1
               [] key = k_aliases ->
                    YMap(al :> YMap(k_script :> YScalar(line1) @@ k_image :> n2))
               [] key = k_shell -> n3]) :
        n1 \in {YScalar(Str(<<"A">>))} \cup Directives,
        n2 \in {YScalar(Str(<<"B">>))} \cup Directives,
        n3 \in {Absent, Directive(file_x, k_two), Directive(<<".", "/", "x">>, k_one),
                Directive(file_y, k_one), YUnsafe}}

\* the disks: every file present, or none at all
FileSystems ==
    {SCUBA_YML :> a @@ file_x :> x @@ file_y :> y :
        a \in Anchors, x \in XFiles, y \in YFiles}
    \cup {<<>>}

-----------------------------------------------------------------------------
(* The caller: load the document into a ScubaConfig, then resolve a command *)

Pending == [exc |-> "pending", msg |-> Msg("none"), val |-> None]
NoCall == [command |-> <<>>, image |-> None, shell |-> None]

FinderIdle ==
    /\ cwd = <<>>
    /\ mounts = {}
    /\ fc_path = <<>>
    /\ fc_rel = <<>>
    /\ examined = <<>>
    /\ fc_result = Pending

LauncherIdle ==
    /\ entrypoint_override = None
    /\ image_entrypoint = None
    /\ docker_cmd = <<>>

LoaderIdle ==
    /\ fs = <<>>
    /\ stack = <<>>
    /\ opens = <<>>
    /\ loaded = Pending

Init ==
    /\ environ \in Environs
    /\ data \in Docs
    /\ config = Pending
    /\ command = <<>>
    /\ call = NoCall
    /\ context = WithCommand(Pending, <<>>)
    /\ pc = "start"
    /\ LoaderIdle
    /\ FinderIdle
    /\ LauncherIdle

\* ScubaConfig(**data)
BuildConfig ==
    /\ pc = "start"
    /\ \E order \in Orders(DOMAIN DictGet(data, k_aliases, EmptyDict).d) :
          config' = ScubaConfig(data, order, environ)
    /\ pc' = "loaded"
    /\ UNCHANGED <<environ, data, command, call, context, launcher, fs, stack, opens, loaded, finder>>

\* ScubaContext.process_command(cfg, command, image, shell) on a built config
ProcessCommand ==
    /\ pc = "loaded"
    /\ config.exc = "none"
    /\ \E cmd \in Commands, image \in ImageOverrides, shell \in ShellOverrides :
          LET outcome == process_command(config.val, cmd, image, shell) IN
          /\ call' = [command |-> cmd, image |-> image, shell |-> shell]
          /\ context' = outcome
          /\ command' = outcome.command
    /\ pc' = "called"
    /\ UNCHANGED <<environ, data, config, fs, stack, opens, loaded, finder, launcher>>

\* the --entrypoint values a run can be given
EntrypointOverrides == {None, Str(<<>>), Str(<<"O">>)}

\* what docker inspect can report as the image's Entrypoint
ImageEntrypoints == {None, List(<<>>), List(<<Str(<<"I">>)>>)}

\* what docker inspect can report as the image's Cmd
ImageCommands == {None, List(<<Str(<<"c">>)>>)}

\* ScubaDive.prepare, __setup_native_run: the default command, the entrypoint,
\* the shell and the path of the generated command.sh
SetupNativeRun ==
    /\ pc = "called"
    /\ context.exc = "none"
    /\ \E override \in EntrypointOverrides, ep \in ImageEntrypoints,
          default_cmd \in IF Truthy(context.val.script) THEN {None} ELSE ImageCommands :
          LET script == default_script(context.val, default_cmd) IN
          /\ entrypoint_override' = override
          /\ image_entrypoint' = ep
          /\ IF script.exc # "none"
             THEN /\ pc' = "norun"
                  /\ UNCHANGED <<context, docker_cmd>>
             ELSE /\ pc' = "run"
                  /\ context' = [context EXCEPT !.val.script = script.val]
                  /\ docker_cmd' = docker_entrypoint(override, context.val.entrypoint, ep)
                                       \o <<context.val.shell, command_sh>>
    /\ UNCHANGED <<environ, data, config, command, call, fs, stack, opens, loaded, finder>>

Next == BuildConfig \/ ProcessCommand \/ SetupNativeRun

Spec == Init /\ [][Next]_vars

-----------------------------------------------------------------------------
(* load_config(path): yaml.load with the !from_yaml Loader, one step per
   open, per tagged scalar constructed and per document returned *)

LoadInit ==
    /\ environ = <<>>
    /\ data = None
    /\ config = Pending
    /\ command = <<>>
    /\ call = NoCall
    /\ context = WithCommand(Pending, <<>>)
    /\ pc = "start"
    /\ fs \in FileSystems
    /\ stack = <<>>
    /\ opens = <<>>
    /\ loaded = Pending
    /\ FinderIdle
    /\ LauncherIdle

\* the loader constructing now, and a tagged scalar it has reached
Top == stack[Len(stack)]
Constructing == pc = "loading" /\ stack # <<>> /\ Top.pending = <<>>

\* open(path, 'r') succeeds on the files of the disk
Exists(path) == ResolvePath(path) \in DOMAIN fs
Opened(path, by) == Append(opens, [path |-> path, by |-> by])

\* an exception leaves every yaml.load under way and reaches load_config
Fail(outcome) ==
    /\ stack' = <<>>
    /\ loaded' = outcome
    /\ config' = load_config_except(outcome)
    /\ pc' = "loaded"

\* from_yaml: shlex.split(content), then the two-arguments test
from_yaml_args(content) ==
    LET parts == shlex_split(content) IN
    IF parts.exc # "none" THEN parts
    ELSE IF Len(parts.val) # 2 THEN Raise("YAMLError", Msg("Two arguments expected"))
    ELSE parts

\* self._cache.get(path)
cache_get(cache, path) == IF path \in DOMAIN cache THEN cache[path] ELSE None

\* from_yaml, from "Retrieve the key" on: the value found stands for the scalar
Retrieved(loaders, pos, doc, key) ==
    LET found == retrieve_key(doc, key)
        n == Len(loaders)
    IN  IF found.exc # "none" THEN Fail(found)
        ELSE /\ stack' = [loaders EXCEPT
                            ![n].tree = ReplaceAt(@, pos, found.val),
                            ![n].pending = <<>>]
             /\ UNCHANGED <<loaded, config, pc>>

\* with open(path, 'r') as f: the anchor document
LoadConfig ==
    /\ pc = "start"
    /\ IF Exists(SCUBA_YML)
       THEN /\ opens' = Opened(SCUBA_YML, 0)
            /\ stack' = <<Loader(1, SCUBA_YML, fs[ResolvePath(SCUBA_YML)])>>
            /\ pc' = "loading"
            /\ UNCHANGED <<loaded, config>>
       ELSE /\ Fail(Raise("IOError", Msg("Error opening")))
            /\ UNCHANGED opens
    /\ UNCHANGED <<environ, data, command, call, context, launcher, fs, finder>>

\* SafeLoader meets a tag it has no constructor for
RejectTag ==
    /\ Constructing
    /\ \E pos \in Tagged(Top.tree) :
          /\ NodeAt(Top.tree, pos).y = "unsafe"
          /\ Fail(Raise("YAMLError", Msg("could not determine a constructor")))
    /\ UNCHANGED <<environ, data, command, call, context, launcher, fs, opens, finder>>

\* from_yaml: the scalar does not split into a file and a key
FromYamlBadArgs ==
    /\ Constructing
    /\ \E pos \in Tagged(Top.tree) :
          /\ NodeAt(Top.tree, pos).y = "from_yaml"
          /\ from_yaml_args(NodeAt(Top.tree, pos).content).exc # "none"
          /\ Fail(from_yaml_args(NodeAt(Top.tree, pos).content))
    /\ UNCHANGED <<environ, data, command, call, context, launcher, fs, opens, finder>>

\* from_yaml: the loader's cache holds a document for the path
FromYamlCached ==
    /\ Constructing
    /\ \E pos \in Tagged(Top.tree) :
          /\ NodeAt(Top.tree, pos).y = "from_yaml"
          /\ LET args == from_yaml_args(NodeAt(Top.tree, pos).content) IN
             /\ args.exc = "none"
             /\ LET path == path_join(Top.root, args.val[1])
                    doc == cache_get(Top.cache, path)
                IN  /\ Truthy(doc)
                    /\ Retrieved(stack, pos, doc, args.val[2])
    /\ UNCHANGED <<environ, data, command, call, context, launcher, fs, opens, finder>>

\* from_yaml: "if not doc": open the file and yaml.load it with a new Loader
FromYamlOpen ==
    /\ Constructing
    /\ \E pos \in Tagged(Top.tree) :
          /\ NodeAt(Top.tree, pos).y = "from_yaml"
          /\ LET args == from_yaml_args(NodeAt(Top.tree, pos).content) IN
             /\ args.exc = "none"
             /\ LET path == path_join(Top.root, args.val[1])
                    doc == cache_get(Top.cache, path)
                    n == Len(stack)
                IN  /\ ~Truthy(doc)
                    /\ IF Exists(path)
                       THEN /\ opens' = Opened(path, Top.id)
                            /\ stack' = Append(
                                 [stack EXCEPT ![n].pending =
                                    [pos |-> pos, key |-> args.val[2], path |-> path]],
                                 Loader(Len(opens) + 1, path, fs[ResolvePath(path)]))
                            /\ UNCHANGED <<loaded, config, pc>>
                       ELSE /\ Fail(Raise("IOError", Msg("Error opening")))
                            /\ UNCHANGED opens
    /\ UNCHANGED <<environ, data, command, call, context, launcher, fs, finder>>

\* an included document is constructed: yaml.load returns it to from_yaml,
\* which stores it in the cache and retrieves the key
ReturnDocument ==
    /\ Constructing
    /\ Len(stack) > 1
    /\ Tagged(Top.tree) = {}
    /\ LET doc == Construct(Top.tree)
           n == Len(stack) - 1
           pending == stack[n].pending
           loaders == [SubSeq(stack, 1, n) EXCEPT
                          ![n].cache = (pending.path :> doc) @@ @]
       IN  Retrieved(loaders, pending.pos, doc, pending.key)
    /\ UNCHANGED <<environ, data, command, call, context, launcher, fs, opens, finder>>

\* the anchor document is constructed: return ScubaConfig(**(data or {}))
ReturnConfig ==
    /\ Constructing
    /\ Len(stack) = 1
    /\ Tagged(Top.tree) = {}
    /\ LET doc == Construct(Top.tree) IN
       /\ data' = doc
       /\ loaded' = Ok(doc)
       /\ \E order \in AliasOrders(doc) : config' = config_of(doc, order, environ)
    /\ stack' = <<>>
    /\ pc' = "loaded"
    /\ UNCHANGED <<environ, command, call, context, launcher, fs, opens, finder>>

LoadNext ==
    \/ LoadConfig
    \/ RejectTag
    \/ FromYamlBadArgs
    \/ FromYamlCached
    \/ FromYamlOpen
    \/ ReturnDocument
    \/ ReturnConfig

LoadSpec == LoadInit /\ [][LoadNext]_vars

-----------------------------------------------------------------------------
(* find_config(): the search up the directory hierarchy, one step per
   iteration of its loop *)

\* the deepest working directory, in levels below the root
MaxDepth == 3

\* the name of the environment variable find_config looks for
SCUBA_DISCOVERY_ACROSS_FILESYSTEM ==
    <<"S", "C", "U", "B", "A", "_", "D", "I", "S", "C", "O", "V", "E", "R", "Y", "_">>
    \o <<"A", "C", "R", "O", "S", "S", "_", "F", "I", "L", "E", "S", "Y", "S", "T", "E", "M">>

\* a toggle that goes by the value of the variable, not by its presence
cross_fs_by_value == getenv(environ, SCUBA_DISCOVERY_ACROSS_FILESYSTEM) # <<>>

\* 'SCUBA_DISCOVERY_ACROSS_FILESYSTEM' in os.environ
cross_fs == SCUBA_DISCOVERY_ACROSS_FILESYSTEM \in DOMAIN environ

\* os.path.split(p)[1]
path_tail(p) == SubSeq(p, FindLast(p, "/") + 1, Len(p))

\* the directories /, /a, /a/b, ... down to MaxDepth levels
DirNames == <<"a", "b", "c", "d", "e">>
RECURSIVE DirAt(_)
DirAt(k) ==
    IF k = 0 THEN <<"/">>
    ELSE IF k = 1 THEN <<"/", DirNames[1]>>
    ELSE DirAt(k - 1) \o <<"/", DirNames[k]>>
Dirs == {DirAt(k) : k \in 0..MaxDepth}

\* an anchor file that builds a config, and one that ScubaConfig refuses
GoodAnchor == YMap(k_image :> YScalar(Str(<<"A">>)))
BadAnchor == YMap(k_foo :> YScalar(Str(k_bar)))

\* the disks: an anchor file in any of the directories; none holds a tagged
\* scalar, so yaml.load of one is its construction
AnchorDisks ==
    {[f \in {ResolvePath(path_join(d, SCUBA_YML)) : d \in holders} |-> GoodAnchor] :
        holders \in SUBSET Dirs}
    \cup {ResolvePath(path_join(d, SCUBA_YML)) :> BadAnchor : d \in Dirs}

FindEnvirons ==
    {<<>>,
     SCUBA_DISCOVERY_ACROSS_FILESYSTEM :> <<"1">>,
     SCUBA_DISCOVERY_ACROSS_FILESYSTEM :> <<>>}

FindInit ==
    /\ environ \in FindEnvirons
    /\ data = None
    /\ config = Pending
    /\ command = <<>>
    /\ call = NoCall
    /\ context = WithCommand(Pending, <<>>)
    /\ pc = "find"
    /\ fs \in AnchorDisks
    /\ stack = <<>>
    /\ opens = <<>>
    /\ loaded = Pending
    /\ cwd \in Dirs
    /\ mounts \in {m \in SUBSET Dirs : <<"/">> \in m}
    /\ fc_path = <<>>
    /\ fc_rel = <<>>
    /\ examined = <<>>
    /\ fc_result = Pending
    /\ LauncherIdle

\* a way back that puts the directory left behind after the way so far
rel_appending(rest, r) == path_join(r, rest)

\* rel = os.path.join(rest, rel)
rel_up(rest, r) == path_join(rest, r)

\* cfg_path = os.path.join(path, SCUBA_YML)
cfg_path == path_join(fc_path, SCUBA_YML)

\* path = os.getcwd(); rel = ''
FindConfig ==
    /\ pc = "find"
    /\ fc_path' = cwd
    /\ fc_rel' = <<>>
    /\ pc' = "searching"
    /\ UNCHANGED <<environ, data, config, command, call, context, launcher, fs, stack, opens,
                   loaded, cwd, mounts, examined, fc_result>>

\* os.path.exists(cfg_path) holds: the search is over
FindFound ==
    /\ pc = "searching"
    /\ Exists(cfg_path)
    /\ examined' = Append(examined, fc_path)
    /\ pc' = "load"
    /\ UNCHANGED <<environ, data, config, command, call, context, launcher, fs, stack, opens,
                   loaded, cwd, mounts, fc_path, fc_rel, fc_result>>

\* return path, rel, load_config(cfg_path)
LoadFound ==
    /\ pc = "load"
    /\ opens' = Opened(cfg_path, 0)
    /\ LET doc == Construct(fs[ResolvePath(cfg_path)]) IN
       /\ data' = doc
       /\ loaded' = Ok(doc)
       /\ \E order \in AliasOrders(doc) :
             LET cfg == config_of(doc, order, environ) IN
             /\ config' = cfg
             /\ fc_result' = IF cfg.exc # "none" THEN cfg
                             ELSE Ok([path |-> fc_path, rel |-> fc_rel, config |-> cfg.val])
    /\ pc' = "found"
    /\ UNCHANGED <<environ, command, call, context, launcher, fs, stack, cwd, mounts, fc_path,
                   fc_rel, examined>>

\* not cross_fs and os.path.ismount(path)
FindStopAtMount ==
    /\ pc = "searching"
    /\ ~Exists(cfg_path)
    /\ ~cross_fs /\ fc_path \in mounts
    /\ examined' = Append(examined, fc_path)
    /\ fc_result' = Raise("ConfigNotFoundError", Msg("not found here or any parent up to mount point"))
    /\ pc' = "notfound"
    /\ UNCHANGED <<environ, data, config, command, call, context, launcher, fs, stack, opens,
                   loaded, cwd, mounts, fc_path, fc_rel>>

\* path, rest = os.path.split(path) with nothing left to split off
FindStopAtRoot ==
    /\ pc = "searching"
    /\ ~Exists(cfg_path)
    /\ ~(~cross_fs /\ fc_path \in mounts)
    /\ path_tail(fc_path) = <<>>
    /\ examined' = Append(examined, fc_path)
    /\ fc_path' = path_head(fc_path)
    /\ fc_result' = Raise("ConfigNotFoundError", Msg("not found here or any parent directories"))
    /\ pc' = "notfound"
    /\ UNCHANGED <<environ, data, config, command, call, context, launcher, fs, stack, opens,
                   loaded, cwd, mounts, fc_rel>>

\* path, rest = os.path.split(path); rel = os.path.join(rest, rel)
FindUp ==
    /\ pc = "searching"
    /\ ~Exists(cfg_path)
    /\ ~(~cross_fs /\ fc_path \in mounts)
    /\ path_tail(fc_path) # <<>>
    /\ examined' = Append(examined, fc_path)
    /\ fc_path' = path_head(fc_path)
    /\ fc_rel' = rel_up(path_tail(fc_path), fc_rel)
    /\ UNCHANGED <<environ, data, config, command, call, context, launcher, pc, fs, stack, opens,
                   loaded, cwd, mounts, fc_result>>

\* a step of the search itself
Search == FindConfig \/ FindFound \/ FindStopAtMount \/ FindStopAtRoot \/ FindUp

FindNext == Search \/ LoadFound

FindSpec == FindInit /\ [][FindNext]_vars

\* the loop runs on until it has found the anchor file or raises
FindFairSpec == FindSpec /\ WF_vars(Search)

-----------------------------------------------------------------------------
(* What the claims speak about, read from the document and the call *)

Built == pc # "start" /\ config.exc = "none"
Called == pc = "called"
Returned == Called /\ context.exc = "none"

ImageNotSet == Msg("Top-level 'image' not set")
MultiLineArgs == Msg("Additional arguments not allowed with multi-line aliases")

\* the alias entries of the document
AliasNodes == DictGet(data, k_aliases, EmptyDict).d

\* command[0] of the call names an alias of the document
Matched == call.command # <<>> /\ call.command[1] \in DOMAIN AliasNodes
MatchedNode == AliasNodes[call.command[1]]
MatchedAlias == config.val.aliases[call.command[1]]

\* the value an alias entry gives to a key (None for a plain string alias)
NodeGet(node, k) == IF node.t = "dict" THEN DictGet(node, k, None) ELSE None

\* the script entries an alias entry declares, in order
DeclaredLines(node) ==
    IF node.t = "str" THEN <<node>>
    ELSE IF node.d[k_script].t = "str" THEN <<node.d[k_script]>>
    ELSE node.d[k_script].l

AllStrings(l) == \A i \in 1..Len(l) : l[i].t = "str"

\* the entrypoint a mapping declares: absent, cleared (null or "") or a string
DeclaredEntrypoint(m) ==
    IF k_entrypoint \notin DOMAIN m.d THEN None
    ELSE IF m.d[k_entrypoint].t = "none" THEN Str(<<>>)
    ELSE m.d[k_entrypoint]

MatchedImage == NodeGet(MatchedNode, k_image)
TopImage == DictGet(data, k_image, None)

\* some level supplies an image to the call
ImageAvailable ==
    \/ Truthy(call.image)
    \/ Matched /\ Truthy(MatchedImage)
    \/ Truthy(TopImage)

MultiLine == Matched /\ Len(DeclaredLines(MatchedNode)) > 1 /\ AllStrings(DeclaredLines(MatchedNode))
SingleLine == Matched /\ Len(DeclaredLines(MatchedNode)) = 1 /\ AllStrings(DeclaredLines(MatchedNode))

\* the alias step of the call raises before the image is looked at
AliasStepRaises ==
    /\ Matched
    /\ \/ Len(DeclaredLines(MatchedNode)) > 1 /\ Len(call.command) > 1
       \/ Len(DeclaredLines(MatchedNode)) = 1 /\ DeclaredLines(MatchedNode)[1].t # "str"

-----------------------------------------------------------------------------
(* C1: the resolved image is the image override when one is given, otherwise
   the image of the matched alias when it defines one, otherwise the global
   image; the resolved shell is the shell override when given, otherwise the
   matched alias's shell when it defines one, otherwise the global shell, which
   is the default shell when the document omits `shell`. "Given" and "defines
   an image" are the code's truth tests; an alias defines a shell when its
   value is not null. *)
C1_ImageShellPrecedence ==
    /\ (Built /\ k_shell \notin DOMAIN data.d) => config.val.shell = DEFAULT_SHELL
    /\ Returned =>
        /\ context.val.image =
              IF Truthy(call.image) THEN call.image
              ELSE IF Matched /\ Truthy(MatchedImage) THEN MatchedImage
              ELSE TopImage
        /\ context.val.shell =
              IF Truthy(call.shell) THEN call.shell
              ELSE IF Matched /\ NodeGet(MatchedNode, k_shell) # None
                   THEN NodeGet(MatchedNode, k_shell)
              ELSE DictGet(data, k_shell, DEFAULT_SHELL)

\* global image A, alias image B and override C: the context has C
C1_Witness ==
    /\ Returned /\ Matched
    /\ TopImage = Str(<<"A">>) /\ MatchedImage = Str(<<"B">>) /\ call.image = Str(<<"C">>)
    /\ context.val.image = Str(<<"C">>)
    /\ NodeGet(MatchedNode, k_shell) = Str(<<"T">>) /\ call.shell = None
    /\ context.val.shell = Str(<<"T">>)

(* C2 as stated: a matched multi-line alias fails with ConfigError when the
   command has extra tokens, and succeeds with exactly the alias's lines when
   the command is the alias name alone. *)
C2_AsStated ==
    (Called /\ MultiLine) =>
        IF Len(call.command) > 1 THEN context.exc = "ConfigError"
        ELSE /\ context.exc = "none"
             /\ context.val.script = List(DeclaredLines(MatchedNode))

(* C2, amended: a matched multi-line alias fails with ConfigError when the
   command has extra tokens; when the command is the alias name alone it
   succeeds with exactly the alias's lines, in order, provided an image is
   available, and fails with the image ConfigError otherwise. *)
C2_MultiLineArity ==
    (Called /\ MultiLine) =>
        IF Len(call.command) > 1
        THEN context.exc = "ConfigError" /\ context.msg = MultiLineArgs
        ELSE IF ImageAvailable
        THEN /\ context.exc = "none"
             /\ context.val.script = List(DeclaredLines(MatchedNode))
        ELSE context.exc = "ConfigError" /\ context.msg = ImageNotSet

\* a two-line alias called by its name alone returned its two lines
C2_Witness ==
    /\ Returned /\ MultiLine /\ Len(call.command) = 1
    /\ context.val.script = List(<<line1, line2>>)

(* C3: for a matched alias with exactly one line the context script is one
   line: the alias line, a space, then command[1:] shell-quoted and
   space-joined in order; read back by a shell it is the words of the alias
   line followed by exactly the remaining tokens. *)
C3_SingleLineAppend ==
    (Returned /\ SingleLine) =>
        LET line == DeclaredLines(MatchedNode)[1].s
            rest == SubSeq(call.command, 2, Len(call.command))
            quoted == [i \in 1..Len(rest) |-> shell_quote(rest[i])]
        IN  /\ context.val.script = List(<<Str(line \o <<" ">> \o Join(<<" ">>, quoted))>>)
            /\ Len(context.val.script.l) = 1
            /\ shlex_split(context.val.script.l[1].s) = Ok(shlex_split(line).val \o rest)

\* a one-line alias called with two arguments, one of them needing quotes
C3_Witness ==
    /\ Returned /\ SingleLine
    /\ call.command = <<al, <<"-", "n">>, <<"m", "o", "r", "e", " ", "a", "r", "g", "s">>>>
    /\ context.val.script =
          List(<<Str(line1.s \o <<" ", "-", "n", " ", "'", "m", "o", "r", "e", " ",
                                  "a", "r", "g", "s", "'">>)>>)

(* C4: when no alias is applied the script stays absent for an empty command
   and is one line of all tokens shell-quoted and joined otherwise; as_root is
   false and entrypoint and environment are the global config's. *)
C4_NoAlias ==
    (Returned /\ ~Matched) =>
        /\ context.val.script =
              IF call.command = <<>> THEN None
              ELSE List(<<Str(Join(<<" ">>, [i \in 1..Len(call.command) |->
                                               shell_quote(call.command[i])]))>>)
        /\ call.command # <<>> =>
              shlex_split(context.val.script.l[1].s) = Ok(call.command)
        /\ context.val.as_root = FALSE
        /\ context.val.entrypoint = config.val.entrypoint
        /\ context.val.environment = config.val.environment

\* a literal command with a quoted argument on a config that defines a root alias
C4_Witness ==
    /\ Returned /\ ~Matched
    /\ DOMAIN AliasNodes # {}
    /\ \E n \in DOMAIN AliasNodes : Truthy(NodeGet(AliasNodes[n], k_root))
    /\ Len(call.command) = 3 /\ call.command[3] = <<"'">>
    /\ context.val.as_root = FALSE

(* C5: entrypoint parsing, at the top level and in each alias, is tri-state:
   no `entrypoint` key gives None; the key with null gives the empty string;
   the key with a string gives that string; the key with any other value makes
   construction fail with ConfigError. None never stands for a present key. *)
C5_EntrypointTriState ==
    pc # "start" =>
        /\ (k_entrypoint \in DOMAIN data.d /\ data.d[k_entrypoint].t \notin {"none", "str"})
              => config.exc = "ConfigError"
        /\ config.exc = "none" =>
              /\ config.val.entrypoint = DeclaredEntrypoint(data)
              /\ k_entrypoint \in DOMAIN data.d => config.val.entrypoint # None
        /\ \A name \in DOMAIN AliasNodes :
              LET node == AliasNodes[name] IN
              node.t = "dict" =>
                 /\ (k_entrypoint \in DOMAIN node.d
                        /\ node.d[k_entrypoint].t \notin {"none", "str"})
                       => config.exc = "ConfigError"
                 /\ config.exc = "none" =>
                       /\ config.val.aliases[name].entrypoint = DeclaredEntrypoint(node)
                       /\ k_entrypoint \in DOMAIN node.d
                             => config.val.aliases[name].entrypoint # None

\* a null entrypoint at the top level and an absent one in the alias
C5_Witness ==
    /\ Built
    /\ k_entrypoint \in DOMAIN data.d /\ data.d[k_entrypoint] = None
    /\ config.val.entrypoint = Str(<<>>)
    /\ al \in DOMAIN AliasNodes /\ AliasNodes[al].t = "dict"
    /\ k_entrypoint \notin DOMAIN AliasNodes[al].d
    /\ config.val.aliases[al].entrypoint = None

(* C6: the context entrypoint is the matched alias's entrypoint when that is
   not absent (the empty string included, which clears a global entrypoint),
   and the global config's entrypoint (absent, empty or string) when the alias
   has none or no alias matches; the override arguments do not change it. *)
C6_EntrypointMerge ==
    Returned =>
        context.val.entrypoint =
            IF Matched /\ MatchedNode.t = "dict" /\ k_entrypoint \in DOMAIN MatchedNode.d
            THEN DeclaredEntrypoint(MatchedNode)
            ELSE DeclaredEntrypoint(data)

\* an alias entrypoint of "" cleared the global entrypoint E, overrides given
C6_Witness ==
    /\ Returned /\ Matched
    /\ DeclaredEntrypoint(data) = Str(<<"E">>)
    /\ MatchedNode.t = "dict" /\ DeclaredEntrypoint(MatchedNode) = Str(<<>>)
    /\ context.val.entrypoint = Str(<<>>)
    /\ Truthy(call.image) /\ Truthy(call.shell)

(* C7 as stated: a document without image builds; reading config.image then
   fails; process_command fails with ConfigError exactly when no level
   supplies an image, and succeeds with an image override on a config without
   image. Stated for calls whose matched alias, if any, has only strings as
   script entries. *)
C7_AsStated ==
    /\ pc # "start" => config.msg # ImageNotSet
    /\ (Built /\ ~Truthy(TopImage)) => config_image(config.val).exc = "ConfigError"
    /\ (Called /\ (Matched => AllStrings(DeclaredLines(MatchedNode)))) =>
          /\ context.exc = "ConfigError" <=> ~ImageAvailable
          /\ (Truthy(call.image) /\ ~Truthy(TopImage)) => context.exc = "none"

(* C7, amended: a document without image builds; reading config.image then
   fails with ConfigError; process_command fails with the image ConfigError
   exactly when no level supplies an image and the alias step has not raised
   first (extra arguments to a multi-line alias, or a single script entry that
   is not a string); when some level supplies an image, an image override
   included, the call succeeds unless the alias step raises. *)
C7_DeferredImage ==
    /\ pc # "start" => config.msg # ImageNotSet
    /\ (Built /\ ~Truthy(TopImage)) =>
          /\ config_image(config.val).exc = "ConfigError"
          /\ config_image(config.val).msg = ImageNotSet
    /\ Called =>
          /\ (context.exc = "ConfigError" /\ context.msg = ImageNotSet)
                <=> (~ImageAvailable /\ ~AliasStepRaises)
          /\ (ImageAvailable /\ ~AliasStepRaises) => context.exc = "none"
          /\ ~ImageAvailable => context.exc # "none"

\* a document without image was built and the call failed for the image
C7_Witness ==
    /\ Called /\ k_image \notin DOMAIN data.d
    /\ Matched /\ call.image = None
    /\ context.exc = "ConfigError" /\ context.msg = ImageNotSet

(* C8: a document with a top-level key outside {image, aliases, hooks,
   entrypoint, environment, shell} fails with one ConfigError naming every
   offending key, plural exactly when more than one key offends; a document
   with only recognized keys is never rejected for its keys. *)
C8_UnrecognizedNodes ==
    pc # "start" =>
        LET offending == DOMAIN data.d \
                {k_image, k_aliases, k_hooks, k_entrypoint, k_environment, k_shell}
        IN  IF offending # {}
            THEN /\ config.exc = "ConfigError"
                 /\ config.msg.id = "Unrecognized node"
                 /\ config.msg.nodes = offending
                 /\ config.msg.plural <=> Cardinality(offending) > 1
            ELSE config.msg.id # "Unrecognized node"

\* two offending keys reported together, in the plural
C8_Witness ==
    /\ pc # "start"
    /\ {k_foo, k_bar} \subseteq DOMAIN data.d
    /\ config.exc = "ConfigError"
    /\ config.msg.nodes = {k_foo, k_bar} /\ config.msg.plural

(* C9: with a matched alias the context environment has every key of the
   global and of the alias environment, a key of both with the alias's value,
   a key of the global one only with the global value; without a matched alias
   it is the global environment. *)
C9_EnvironmentMerge ==
    Returned =>
        LET global == config.val.environment.d
            env == context.val.environment.d
        IN  IF Matched
            THEN LET alias == IF MatchedAlias.environment = None THEN <<>>
                              ELSE MatchedAlias.environment.d
                 IN  /\ DOMAIN env = DOMAIN global \cup DOMAIN alias
                     /\ \A k \in DOMAIN alias : env[k] = alias[k]
                     /\ \A k \in DOMAIN global \ DOMAIN alias : env[k] = global[k]
            ELSE env = global

\* K1 from the global environment, K2 overridden by the alias, K3 from the alias
C9_Witness ==
    /\ Returned /\ Matched
    /\ context.val.environment =
          Dict(K1 :> Str(<<"g", "1">>) @@ K2 :> Str(<<"a", "2">>) @@ K3 :> Str(<<"a", "3">>))
    /\ config.val.environment.d[K2] = Str(<<"g", "2">>)

-----------------------------------------------------------------------------
(* The inclusion cache *)

\* the opens a loader made that reach the file f
OpensOf(by, f) ==
    {i \in 1..Len(opens) : opens[i].by = by /\ ResolvePath(opens[i].path) = f}

\* the loaders created so far: one per open
Loaders == 1..Len(opens)

(* C10: within one load_config call, the inclusion directives of one document
   that reference the same target file open and parse that file exactly once
   between them: when the load has succeeded, no loader has opened the same
   file twice. *)
C10_OpenedOncePerDocument ==
    (pc = "loaded" /\ config.exc = "none") =>
        \A by \in Loaders : \A f \in DOMAIN fs : Cardinality(OpensOf(by, f)) <= 1

\* the part of C10 the code keeps: one document never opens the same joined
\* path twice, each later directive of that spelling is served by the cache
C10_SameSpellingOpenedOnce ==
    \A i, j \in 1..Len(opens) :
        (i # j /\ opens[i].by = opens[j].by) => opens[i].path # opens[j].path

\* a load that succeeded with two directives of the anchor served by one open
C10_CacheServed ==
    /\ pc = "loaded"
    /\ config.exc = "none"
    /\ Cardinality({i \in 1..Len(opens) : opens[i].by = 1}) = 1
    /\ Cardinality(Tagged(fs[SCUBA_YML])) >= 2

-----------------------------------------------------------------------------
(* Key paths *)

\* the j-th smallest member of a set of numbers
NthOf(S, j) == CHOOSE i \in S : Cardinality({k \in S : k < i}) = j - 1

\* the separators of a key path: each '.' not right after a backslash
KeySeps(key) == {i \in 1..Len(key) : key[i] = "." /\ (i = 1 \/ key[i - 1] # "\\")}

\* the text between consecutive separators
KeySegments(key) ==
    LET seps == KeySeps(key)
        bound(j) == IF j = 0 THEN 0
                    ELSE IF j > Cardinality(seps) THEN Len(key) + 1
                    ELSE NthOf(seps, j)
    IN  [j \in 1..(Cardinality(seps) + 1) |->
            SubSeq(key, bound(j - 1) + 1, bound(j) - 1)]

\* a segment with each backslash that stands before a '.' taken out
Unescaped(seg) ==
    LET keep == {i \in 1..Len(seg) : ~(seg[i] = "\\" /\ i < Len(seg) /\ seg[i + 1] = ".")}
    IN  [j \in 1..Cardinality(keep) |-> seg[NthOf(keep, j)]]

NotFound == [found |-> FALSE, val |-> None]

RECURSIVE Descend(_, _)
\* one mapping level down per key, as far as the keys exist
Descend(doc, keys) ==
    IF keys = <<>> THEN [found |-> TRUE, val |-> doc]
    ELSE IF doc.t = "dict" /\ Head(keys) \in DOMAIN doc.d
    THEN Descend(doc.d[Head(keys)], Tail(keys))
    ELSE NotFound

\* what the key path of a directive names in a document
Named(doc, key) ==
    LET segs == KeySegments(key) IN
    Descend(doc, [j \in DOMAIN segs |-> Unescaped(segs[j])])

RECURSIVE ValueAt(_, _)
\* the value a loaded document holds at a position
ValueAt(v, pos) ==
    IF pos = <<>> THEN v
    ELSE IF v.t = "dict" THEN ValueAt(v.d[Head(pos).k], Tail(pos))
    ELSE ValueAt(v.l[Head(pos).i], Tail(pos))

\* the directives of the anchor document, and what each one says
AnchorDirectives ==
    IF SCUBA_YML \in DOMAIN fs
    THEN {pos \in Tagged(fs[SCUBA_YML]) : NodeAt(fs[SCUBA_YML], pos).y = "from_yaml"}
    ELSE {}
ContentAt(pos) == NodeAt(fs[SCUBA_YML], pos).content
ArgsAt(pos) == shlex_split(ContentAt(pos))
WellFormed(pos) == ArgsAt(pos).exc = "none" /\ Len(ArgsAt(pos).val) = 2
TargetAt(pos) == ResolvePath(path_join(path_head(SCUBA_YML), ArgsAt(pos).val[1]))
KeyAt(pos) == ArgsAt(pos).val[2]

\* yaml.load returned the anchor document
Loaded == pc = "loaded" /\ loaded.exc = "none"
\* load_config is over
LoadOver == pc = "loaded" /\ stack = <<>>

(* C11: the key path of a directive is split at every '.' not right after a
   backslash, each "\." in a segment becomes a '.', and the directive's value
   is what the target document holds one mapping level down per segment:
   once the anchor document is loaded, each of its directives into a file
   without directives of its own holds exactly that value, and the anchor
   document does load when every directive it has names a value that way. *)
C11_KeyPathDescent ==
    /\ Loaded =>
          \A pos \in AnchorDirectives :
              (WellFormed(pos) /\ TargetAt(pos) \in DOMAIN fs
               /\ Tagged(fs[TargetAt(pos)]) = {}) =>
                  LET named == Named(Construct(fs[TargetAt(pos)]), KeyAt(pos)) IN
                  named.found /\ ValueAt(data, pos) = named.val
    /\ (/\ LoadOver
        /\ SCUBA_YML \in DOMAIN fs
        /\ Tagged(fs[SCUBA_YML]) = AnchorDirectives
        /\ \A pos \in AnchorDirectives :
               /\ WellFormed(pos)
               /\ TargetAt(pos) \in DOMAIN fs
               /\ Tagged(fs[TargetAt(pos)]) = {}
               /\ Named(Construct(fs[TargetAt(pos)]), KeyAt(pos)).found)
       => Loaded

\* a loaded document whose directive "\.i.s\.d.h" went through the keys
\* ".i", "s.d" and "h"
C11_Witness ==
    /\ Loaded
    /\ \E pos \in AnchorDirectives :
          /\ ContentAt(pos) = file_x \o <<" ">> \o path_here
          /\ KeySegments(KeyAt(pos)) =
                <<<<"\\", ".", "i">>, <<"s", "\\", ".", "d">>, <<"h">>>>
          /\ ValueAt(data, pos) = Str(<<"H">>)

\* the anchor document has directives only, each well formed and into a file
\* that exists and has no tagged scalar of its own
PlainDirectives ==
    /\ SCUBA_YML \in DOMAIN fs
    /\ Tagged(fs[SCUBA_YML]) = AnchorDirectives
    /\ \A pos \in AnchorDirectives :
          /\ WellFormed(pos)
          /\ TargetAt(pos) \in DOMAIN fs
          /\ Tagged(fs[TargetAt(pos)]) = {}

\* the directives whose key path has a segment the target document lacks
MissingKey ==
    {pos \in AnchorDirectives :
        ~Named(Construct(fs[TargetAt(pos)]), KeyAt(pos)).found}

(* C12: if a segment of a directive's key path is missing in the target
   document, load_config fails with ConfigError and returns no Config,
   whatever value (mapping, null, scalar, sequence) was reached before the
   missing segment: a load of an anchor document whose only flaw is such a
   directive ends in ConfigError. *)
C12_MissingKeyConfigError ==
    (LoadOver /\ PlainDirectives /\ MissingKey # {}) => config.exc = "ConfigError"

\* a directive whose scalar is not two shell words, or whose file is not there
Malformed(pos) == ~WellFormed(pos)
TargetMissing(pos) == WellFormed(pos) /\ TargetAt(pos) \notin DOMAIN fs

\* a directive with nothing wrong: its file exists, holds no tagged scalar and
\* has every segment of the key path
Flawless(pos) ==
    /\ WellFormed(pos)
    /\ TargetAt(pos) \in DOMAIN fs
    /\ Tagged(fs[TargetAt(pos)]) = {}
    /\ Named(Construct(fs[TargetAt(pos)]), KeyAt(pos)).found

(* C13: a directive whose scalar does not lex under shell rules into exactly
   two arguments, and a directive whose target file does not exist, both make
   load_config fail with ConfigError: a load of an anchor document whose only
   flaws are such directives ends in ConfigError and no other exception. *)
C13_MalformedConfigError ==
    (/\ LoadOver
     /\ SCUBA_YML \in DOMAIN fs
     /\ Tagged(fs[SCUBA_YML]) = AnchorDirectives
     /\ \A pos \in AnchorDirectives : Malformed(pos) \/ TargetMissing(pos) \/ Flawless(pos)
     /\ \E pos \in AnchorDirectives : Malformed(pos) \/ TargetMissing(pos))
    => config.exc = "ConfigError"

\* the files opened so far that hold a type/class-instantiation tag
HasUnsafe(tree) == \E pos \in Tagged(tree) : NodeAt(tree, pos).y = "unsafe"
UnsafeOpened ==
    {i \in 1..Len(opens) : HasUnsafe(fs[ResolvePath(opens[i].path)])}

(* C14: a document that contains a type/class-instantiation tag is refused,
   in the anchor document and in a file reached through a directive at any
   depth: a load that opened a file holding such a tag ends in ConfigError. *)
C14_UnsafeTagConfigError ==
    (LoadOver /\ UnsafeOpened # {}) => config.exc = "ConfigError"

\* the part of C14 the code keeps: such a load never returns a Config, and
\* yaml.load never returns a document
C14_UnsafeTagNeverLoaded ==
    (LoadOver /\ UnsafeOpened # {}) => (config.exc # "none" /\ ~Loaded /\ data = None)

-----------------------------------------------------------------------------
(* Script nodes *)

\* the three shapes of a script node: a string, a mapping whose script is a
\* string, a mapping whose script is a non-empty list of strings
ScriptAccepted(node) ==
    \/ node.t = "str"
    \/ /\ node.t = "dict"
       /\ k_script \in DOMAIN node.d
       /\ \/ node.d[k_script].t = "str" /\ node.d[k_script].s # <<>>
          \/ /\ node.d[k_script].t = "list"
             /\ node.d[k_script].l # <<>>
             /\ AllStrings(node.d[k_script].l)

\* the command list an accepted shape stands for
ScriptOf(node) ==
    IF node.t = "str" THEN <<node>>
    ELSE IF node.d[k_script].t = "str" THEN <<node.d[k_script]>>
    ELSE node.d[k_script].l

(* C15: _process_script_node accepts exactly the three shapes and rejects
   every other with ConfigError, and whenever it succeeds the result is a
   non-empty sequence of strings: a config is built only from alias entries
   of an accepted shape, each alias holds the command list of its entry, and
   a document with an alias entry of another shape fails with ConfigError. *)
C15_ScriptShapes ==
    pc # "start" =>
        /\ config.exc = "none" =>
              \A name \in DOMAIN AliasNodes :
                  /\ ScriptAccepted(AliasNodes[name])
                  /\ config.val.aliases[name].script = List(ScriptOf(AliasNodes[name]))
                  /\ config.val.aliases[name].script.l # <<>>
                  /\ AllStrings(config.val.aliases[name].script.l)
        /\ (\E name \in DOMAIN AliasNodes : ~ScriptAccepted(AliasNodes[name]))
              => config.exc = "ConfigError"

\* the part of C15 the code keeps: a built alias holds the string of its
\* entry, or the non-empty list under `script` as it stands
C15_ScriptAsWritten ==
    (pc # "start" /\ config.exc = "none") =>
        \A name \in DOMAIN AliasNodes :
            LET node == AliasNodes[name] IN
            /\ node.t = "str" \/ (node.t = "dict" /\ k_script \in DOMAIN node.d
                                  /\ node.d[k_script].t \in {"str", "list"}
                                  /\ Truthy(node.d[k_script]))
            /\ config.val.aliases[name].script = List(ScriptOf(node))

-----------------------------------------------------------------------------
(* The search for the anchor file *)

\* the directory names of a path, from the root down
Names(p) == Components(p, <<>>, <<>>)

\* d is c or a directory above c
AtOrAbove(d, c) ==
    /\ Len(Names(d)) <= Len(Names(c))
    /\ SubSeq(Names(c), 1, Len(Names(d))) = Names(d)

\* d lies on the way from c up to a (both ends included)
Between(a, d, c) == AtOrAbove(a, d) /\ AtOrAbove(d, c)

\* the directory holds the anchor file
HoldsAnchor(d) == ResolvePath(d \o <<"/">> \o SCUBA_YML) \in DOMAIN fs

FindReturned == pc = "found" /\ fc_result.exc = "none"
\* the search is over: it found the anchor file, or raised
FindOver == pc \in {"load", "found", "notfound"}
NotFoundError == fc_result.exc = "ConfigNotFoundError"

(* C16: whenever find_config succeeds from cwd, the anchor directory it
   returns is cwd or an ancestor of cwd and holds the anchor file, no
   directory between it and cwd (cwd included) holds the anchor file, and
   the returned relative path joined onto the anchor directory names cwd;
   the relative path is empty when the anchor file is in cwd. *)
C16_NearestAnchor ==
    FindReturned =>
        LET anchor == fc_result.val.path
            back == fc_result.val.rel
        IN  /\ AtOrAbove(anchor, cwd)
            /\ HoldsAnchor(anchor)
            /\ \A d \in Dirs : (Between(anchor, d, cwd) /\ d # anchor) => ~HoldsAnchor(d)
            /\ Names(path_join(anchor, back)) = Names(cwd)
            /\ HoldsAnchor(cwd) => (back = <<>> /\ anchor = cwd)

\* a search that went up two levels before it found the anchor file
C16_Witness ==
    /\ FindReturned
    /\ Len(Names(cwd)) = Len(Names(fc_result.val.path)) + 2
    /\ Len(Names(fc_result.val.rel)) = 2

\* the first mount point at or above the starting directory
FirstMount ==
    CHOOSE m \in mounts :
        /\ AtOrAbove(m, cwd)
        /\ \A n \in mounts : AtOrAbove(n, cwd) => AtOrAbove(n, m)

\* the variable is in the process environment, whatever its value
TogglePresent == SCUBA_DISCOVERY_ACROSS_FILESYSTEM \in DOMAIN environ

\* the directories find_config has tested for the anchor file
Examined == {examined[i] : i \in 1..Len(examined)}

\* without the variable: nothing above the first mount point is examined, and
\* a search that finds no anchor file up to it ends there with the error
StopsAtMount ==
    ~TogglePresent =>
        /\ \A d \in Examined : Between(FirstMount, d, cwd)
        /\ (FindOver /\ \A d \in Dirs : Between(FirstMount, d, cwd) => ~HoldsAnchor(d))
              => (NotFoundError /\ FirstMount \in Examined)

\* with the variable: the search ends only at an anchor file, or at the root
\* with the error when no directory on the way holds one
CrossesMounts ==
    (TogglePresent /\ FindOver) =>
        \/ pc \in {"load", "found"} /\ HoldsAnchor(fc_path)
        \/ /\ NotFoundError
           /\ <<"/">> \in Examined
           /\ \A d \in Dirs : AtOrAbove(d, cwd) => ~HoldsAnchor(d)

(* C17: without SCUBA_DISCOVERY_ACROSS_FILESYSTEM in the environment
   find_config never examines a directory above the first mount point at or
   above the start and ends there with ConfigNotFoundError when no directory
   up to it holds the anchor file, even if a higher one does; with the
   variable present, whatever its value, it goes on past mount points and
   ends only by finding the file or at the root with ConfigNotFoundError;
   in both modes the search ends. *)
C17_MountBoundary == [](StopsAtMount /\ CrossesMounts) /\ <>FindOver

\* a search without the variable that ended at a mount point below a
\* directory holding the anchor file
C17_Witness ==
    /\ ~TogglePresent
    /\ pc = "notfound"
    /\ NotFoundError
    /\ FirstMount # <<"/">>
    /\ \E d \in Dirs : AtOrAbove(d, FirstMount) /\ d # FirstMount /\ HoldsAnchor(d)

\* a search with the variable set to the empty string that went past a mount
\* point and found the anchor file above it
C17_CrossedWitness ==
    /\ TogglePresent
    /\ environ[SCUBA_DISCOVERY_ACROSS_FILESYSTEM] = <<>>
    /\ pc = "load"
    /\ FirstMount # fc_path
    /\ AtOrAbove(fc_path, FirstMount)

-----------------------------------------------------------------------------
(* Environment nodes *)

\* the text of an entry before its first '=' (all of it when it has none)
EntryKey(e) ==
    IF \E i \in 1..Len(e) : e[i] = "="
    THEN SubSeq(e, 1, (CHOOSE i \in 1..Len(e) :
                          e[i] = "=" /\ \A j \in 1..(i - 1) : e[j] # "=") - 1)
    ELSE e

\* the value an entry binds its key to: the text after the first '=', or the
\* process environment variable of that name, "" when unset
EntryValue(e) ==
    IF EntryKey(e) = e
    THEN (IF e \in DOMAIN environ THEN environ[e] ELSE <<>>)
    ELSE SubSeq(e, Len(EntryKey(e)) + 2, Len(e))

\* the environment a declared node stands for (None stands for no node)
DeclaredEnvironment(node) ==
    IF node.t = "dict"
    THEN [k \in DOMAIN node.d |->
             IF node.d[k].t = "none"
             THEN Str(IF k \in DOMAIN environ THEN environ[k] ELSE <<>>)
             ELSE Str(PyStr(node.d[k]))]
    ELSE IF node.t = "list"
    THEN [k \in {EntryKey(node.l[i].s) : i \in 1..Len(node.l)} |->
             LET last == CHOOSE i \in 1..Len(node.l) :
                            /\ EntryKey(node.l[i].s) = k
                            /\ \A j \in (i + 1)..Len(node.l) : EntryKey(node.l[j].s) # k
             IN  Str(EntryValue(node.l[last].s))]
    ELSE <<>>

\* a mapping from strings to strings
StringsToStrings(m) ==
    \A k \in DOMAIN m : k \in Seq(Letters \cup Digits) /\ m[k].t = "str"

\* the environment nodes of the document that are a mapping or a sequence of strings
WellFormedEnvironment(node) ==
    \/ node.t = "none"
    \/ node.t = "dict"
    \/ node.t = "list" /\ AllStrings(node.l)

(* C18: environment normalization, at the top level and per alias, yields a
   mapping from strings to strings with exactly the declared keys: in mapping
   form a non-null value is stringified and a null value is the same-named
   process environment variable, or "" when unset; in sequence form KEY=VALUE
   binds KEY to VALUE and a bare KEY binds KEY to the process environment
   variable KEY, or "" when unset. *)
C18_EnvironmentNormalized ==
    Built =>
        /\ WellFormedEnvironment(DictGet(data, k_environment, None)) =>
              /\ config.val.environment = Dict(DeclaredEnvironment(DictGet(data, k_environment, None)))
              /\ StringsToStrings(config.val.environment.d)
        /\ \A name \in DOMAIN AliasNodes :
              (AliasNodes[name].t = "dict"
               /\ WellFormedEnvironment(NodeGet(AliasNodes[name], k_environment))) =>
                  /\ config.val.aliases[name].environment =
                        Dict(DeclaredEnvironment(NodeGet(AliasNodes[name], k_environment)))
                  /\ StringsToStrings(config.val.aliases[name].environment.d)

\* a config built where K1 is set in the process environment, from a mapping
\* with a null and a number at the top level and a sequence with a bare KEY
\* and a KEY=VALUE in the alias
C18_Witness ==
    /\ Built
    /\ K1 \in DOMAIN environ
    /\ DictGet(data, k_environment, None) = Dict(K1 :> None @@ K2 :> PyInt(1))
    /\ config.val.environment = Dict(K1 :> Str(environ[K1]) @@ K2 :> Str(<<"1">>))
    /\ al \in DOMAIN AliasNodes
    /\ NodeGet(AliasNodes[al], k_environment)
          = List(<<Str(K1), Str(K2 \o <<"=", "v", "=", "w">>)>>)
    /\ config.val.aliases[al].environment
          = Dict(K1 :> Str(environ[K1]) @@ K2 :> Str(<<"v", "=", "w">>))

-----------------------------------------------------------------------------
(* Alias names and hooks *)

\* the name holds a space, or any whitespace
HasSpace(name) == \E i \in 1..Len(name) : name[i] = " "
HasWhitespace(name) == \E i \in 1..Len(name) : name[i] \in Whitespace

(* C19: every alias of a built ScubaConfig has a name without whitespace: a
   document with an alias entry whose name holds a space or other whitespace
   fails with ConfigError, whatever the other alias entries are. *)
C19_NoWhitespaceInNames ==
    pc # "start" =>
        /\ config.exc = "none" =>
              \A name \in DOMAIN config.val.aliases : ~HasWhitespace(name)
        /\ (\E name \in DOMAIN AliasNodes : HasWhitespace(name))
              => config.exc = "ConfigError"

\* the part of C19 the code keeps: no alias name of a built config holds a
\* space, and a document with such a name fails with ConfigError
C19_NoSpaceInNames ==
    pc # "start" =>
        /\ config.exc = "none" =>
              \A name \in DOMAIN config.val.aliases : ~HasSpace(name)
        /\ (\E name \in DOMAIN AliasNodes : HasSpace(name))
              => config.exc = "ConfigError"

\* the entries of the `hooks` mapping of the document
HookNodes == DictGet(data, k_hooks, EmptyDict).d
HookNames == {k_user, k_root}

(* C20: for each hook name in {user, root}: with no entry of that name
   config.hooks has no hook for it; with an entry, config.hooks[name] is the
   normalized command list when the value has an accepted script shape and
   construction fails with ConfigError when it has any other shape (a list
   not under `script`, a mapping without `script`, a number, null); other
   hook names never appear in config.hooks. *)
C20_HooksNormalized ==
    pc # "start" =>
        /\ config.exc = "none" =>
              /\ DOMAIN config.val.hooks \subseteq HookNames
              /\ \A name \in HookNames :
                    IF name \in DOMAIN HookNodes
                    THEN /\ ScriptAccepted(HookNodes[name])
                         /\ name \in DOMAIN config.val.hooks
                         /\ config.val.hooks[name] = List(ScriptOf(HookNodes[name]))
                    ELSE name \notin DOMAIN config.val.hooks
        /\ (\E name \in HookNames \cap DOMAIN HookNodes : ~ScriptAccepted(HookNodes[name]))
              => config.exc = "ConfigError"

\* the part of C20 the code keeps: an entry that is null or otherwise falsy
\* counts as no entry, every other entry goes through the script normalizer
C20_TruthyHooksNormalized ==
    pc # "start" =>
        LET present == {name \in HookNames \cap DOMAIN HookNodes : Truthy(HookNodes[name])} IN
        /\ config.exc = "none" =>
              /\ DOMAIN config.val.hooks = present
              /\ \A name \in present :
                    /\ ScriptAccepted(HookNodes[name])
                    /\ config.val.hooks[name] = List(ScriptOf(HookNodes[name]))
        /\ (\E name \in present : ~ScriptAccepted(HookNodes[name]))
              => config.exc = "ConfigError"

-----------------------------------------------------------------------------
(* The inclusion cache across documents *)

\* all the opens of one load_config call that reach the file f
AllOpensOf(f) == {i \in 1..Len(opens) : ResolvePath(opens[i].path) = f}

\* no single document opened the same file twice
OncePerDocument ==
    \A by \in Loaders : \A f \in DOMAIN fs : Cardinality(OpensOf(by, f)) <= 1

(* C21: the inclusion cache is scoped to one load_config call and keyed by
   resolved path: within one call a file is opened and parsed at most once
   in total, also when different documents of the inclusion tree reference
   it. Stated for the loads that succeeded and in which no single document
   opened a file twice. *)
C21_OpenedOncePerLoad ==
    (pc = "loaded" /\ config.exc = "none" /\ OncePerDocument) =>
        \A f \in DOMAIN fs : Cardinality(AllOpensOf(f)) <= 1

-----------------------------------------------------------------------------
(* Nested script entries *)

\* every entry is a string or a sequence of strings, and one is a sequence
NestedStrings(l) ==
    /\ \A i \in 1..Len(l) : l[i].t = "str" \/ (l[i].t = "list" /\ AllStrings(l[i].l))
    /\ \E i \in 1..Len(l) : l[i].t = "list"

RECURSIVE InOrder(_)
\* the strings of such a script, nested entries opened up in place
InOrder(l) ==
    IF l = <<>> THEN <<>>
    ELSE (IF Head(l).t = "list" THEN Head(l).l ELSE <<Head(l)>>) \o InOrder(Tail(l))

\* the matched alias was built from a script with nested entries
MatchedNested ==
    /\ Called
    /\ Matched
    /\ MatchedNode.t = "dict"
    /\ k_script \in DOMAIN MatchedNode.d
    /\ MatchedNode.d[k_script].t = "list"
    /\ NestedStrings(MatchedNode.d[k_script].l)

(* C22: for a matched alias whose script entries are nested sequences, the
   context script is the nested entries flattened in order into one sequence
   of plain strings, whether the alias script has one top-level entry or
   several: called with the alias name alone and an image at hand the call
   succeeds, and whenever it succeeds the script is that flat sequence. *)
C22_NestedFlattened ==
    MatchedNested =>
        /\ (Len(call.command) = 1 /\ ImageAvailable) => Returned
        /\ Returned =>
              /\ context.val.script = List(InOrder(MatchedNode.d[k_script].l))
              /\ AllStrings(context.val.script.l)

\* the part of C22 the code keeps: a script of several top-level entries is
\* flattened in order
C22_SeveralFlattened ==
    (MatchedNested /\ Len(MatchedNode.d[k_script].l) > 1) =>
        /\ (Len(call.command) = 1 /\ ImageAvailable) => Returned
        /\ Returned =>
              /\ context.val.script = List(InOrder(MatchedNode.d[k_script].l))
              /\ AllStrings(context.val.script.l)

-----------------------------------------------------------------------------
(* Scalar environment nodes *)

Scalar(v) == v.t \in {"int", "str", "bool"}

\* the environment nodes of the document that are scalars, by the field name
\* an error names them with
ScalarEnvironmentFields ==
    {k_environment : x \in {0} \cap (IF Scalar(DictGet(data, k_environment, None))
                                    THEN {0} ELSE {})}
    \cup {name \o <<".">> \o k_environment :
             name \in {n \in DOMAIN AliasNodes :
                          Scalar(NodeGet(AliasNodes[n], k_environment))}}

(* C23: an environment node, at the top level or inside an alias, that is
   neither a mapping nor a sequence makes construction fail with ConfigError
   naming the field, for every scalar value, number, string or boolean. *)
C23_ScalarEnvironmentRefused ==
    (pc # "start" /\ ScalarEnvironmentFields # {}) =>
        /\ config.exc = "ConfigError"
        /\ config.msg.id = "must be list or mapping"
        /\ config.msg.name \in ScalarEnvironmentFields

\* the part of C23 the code keeps: a scalar that is truthy is refused
C23_TruthyScalarRefused ==
    (/\ pc # "start"
     /\ \/ (Scalar(DictGet(data, k_environment, None))
            /\ Truthy(DictGet(data, k_environment, None)))
        \/ \E n \in DOMAIN AliasNodes :
              /\ Scalar(NodeGet(AliasNodes[n], k_environment))
              /\ Truthy(NodeGet(AliasNodes[n], k_environment))) =>
        /\ config.exc = "ConfigError"
        /\ config.msg.id = "must be list or mapping"
        /\ config.msg.name \in ScalarEnvironmentFields

-----------------------------------------------------------------------------
(* What a call leaves of its inputs *)

\* the call went through the branch of an alias whose script has one entry
OneEntryAlias == Called /\ Matched /\ Len(MatchedAlias.script.l) = 1

\* the same call made again with the list the first call was given
CalledAgain == process_command(config.val, command, call.image, call.shell)

(* C24: process_command leaves its inputs as it found them on every path:
   after the call the caller's command list holds the tokens it held before,
   so that the same call made again with the same list returns an equal
   context. *)
C24_InputsUnchanged ==
    Called =>
        /\ command = call.command
        /\ (Returned => CalledAgain.exc = "none" /\ CalledAgain.val = context.val)

\* the part of C24 the code keeps: only the branch of a one-entry alias
\* changes the caller's list, and it removes the alias name alone
C24_OnlyAliasNamePopped ==
    Called =>
        /\ ~OneEntryAlias => command = call.command
        /\ OneEntryAlias => command = Tail(call.command)

-----------------------------------------------------------------------------
(* The shell of a context *)

(* C25: every context process_command returns has a shell that is a string,
   never an absent value, whatever the shell values of the document and the
   overrides of the call. *)
C25_ShellIsString ==
    Returned => context.val.shell.t = "str"

\* the part of C25 the code keeps: a document that gives no shell a null
\* value makes every context carry a string
C25_ShellIsStringUnlessNull ==
    (/\ Returned
     /\ DictGet(data, k_shell, DEFAULT_SHELL).t = "str"
     /\ \A n \in DOMAIN AliasNodes : NodeGet(AliasNodes[n], k_shell).t \in {"none", "str"}) =>
        context.val.shell.t = "str"

-----------------------------------------------------------------------------
(* The entrypoint of the container command *)

Run == pc = "run"

\* what one level decides once it is not absent: itself, or nothing when empty
Decides(v) == IF v.s # <<>> THEN <<v>> ELSE <<>>

\* the image's own entrypoint, nothing when the image declares none
ImageOwn == IF image_entrypoint.t = "list" THEN image_entrypoint.l ELSE <<>>

\* what stands in docker_cmd before the shell and the script path
Placed == SubSeq(docker_cmd, 1, Len(docker_cmd) - 2)

(* C26: in the container command the entrypoint placed before the shell and
   the script path follows a strict precedence that keeps the tri-state: an
   entrypoint override that is not None decides (itself when non-empty,
   nothing when empty); otherwise a context entrypoint that is not absent
   decides in the same way; only when both are absent is the image's own
   entrypoint used.  An empty value never falls through to a lower level. *)
C26_EntrypointPrecedence ==
    Run =>
        /\ Len(docker_cmd) >= 2
        /\ SubSeq(docker_cmd, Len(docker_cmd) - 1, Len(docker_cmd))
               = <<context.val.shell, command_sh>>
        /\ entrypoint_override # None => Placed = Decides(entrypoint_override)
        /\ (entrypoint_override = None /\ context.val.entrypoint # None) =>
               Placed = Decides(context.val.entrypoint)
        /\ (entrypoint_override = None /\ context.val.entrypoint = None) =>
               Placed = ImageOwn

\* an empty override decided while the context and the image both had an entrypoint
C26_Witness ==
    /\ Run
    /\ entrypoint_override = Str(<<>>)
    /\ Truthy(context.val.entrypoint)
    /\ ImageOwn # <<>>
    /\ Placed = <<>>

\* an empty context entrypoint decided while the image had an entrypoint
C26_EmptyContextWitness ==
    /\ Run
    /\ entrypoint_override = None
    /\ context.val.entrypoint = Str(<<>>)
    /\ ImageOwn # <<>>
    /\ Placed = <<>>

\* both levels absent: the image's own entrypoint was used
C26_ImageWitness ==
    /\ Run
    /\ entrypoint_override = None
    /\ context.val.entrypoint = None
    /\ Placed = ImageOwn
    /\ ImageOwn # <<>>

====
